---- MODULE Spec2Model ----
(***************************************************************************)
(* Legacy Archive Modernizer: the transformation engine                    *)
(* (scripts/modernize_archive.py, class ArchiveTransformer) as a state     *)
(* machine.  Strings are sequences of one-character strings so that the    *)
(* regular-expression steps of the naming pipeline are computed, character *)
(* by character, the way the Python code computes them.                    *)
(***************************************************************************)
EXTENDS Integers, Sequences, FiniteSets, TLC

(***************************************************************************)
(* Character classes and elementary string functions (Python str / re).    *)
(***************************************************************************)
UpperChars ==
    <<"A","B","C","D","E","F","G","H","I","J","K","L","M",
      "N","O","P","Q","R","S","T","U","V","W","X","Y","Z">>

LowerChars ==
    <<"a","b","c","d","e","f","g","h","i","j","k","l","m",
      "n","o","p","q","r","s","t","u","v","w","x","y","z">>

DigitChars == <<"0","1","2","3","4","5","6","7","8","9">>

Range(s) == {s[i] : i \in DOMAIN s}

\* the character classes [A-Z], [a-zA-Z], \d and \s
UpperClass == Range(UpperChars)

AlphaClass == Range(UpperChars) \cup Range(LowerChars)

DigitClass == Range(DigitChars)

SpaceClass == {" "}

IsUpper(c) == c \in UpperClass

IsLower(c) == c \in Range(LowerChars)

IsAlpha(c) == c \in AlphaClass

IsDigit(c) == c \in DigitClass

IsAlnum(c) == IsAlpha(c) \/ IsDigit(c)

IsSpace(c) == c \in SpaceClass

ToLower(c) ==
    IF IsUpper(c) THEN LowerChars[CHOOSE i \in 1..26 : UpperChars[i] = c] ELSE c

ToUpper(c) ==
    IF IsLower(c) THEN UpperChars[CHOOSE i \in 1..26 : LowerChars[i] = c] ELSE c

Lower(s) == [i \in DOMAIN s |-> ToLower(s[i])]

DigitValue(c) == (CHOOSE i \in 1..10 : DigitChars[i] = c) - 1

\* s[from..] (1-based), the empty string when from > Len(s)
Drop(s, from) == SubSeq(s, from, Len(s))

Take(s, n) == SubSeq(s, 1, IF n < Len(s) THEN n ELSE Len(s))

\* does sub occur in s at position i
MatchAt(s, i, sub) ==
    /\ i >= 1
    /\ i + Len(sub) - 1 <= Len(s)
    /\ \A k \in 1..Len(sub) : s[i + k - 1] = sub[k]

\* the same, ignoring case (re.IGNORECASE on a literal)
MatchAtI(s, i, sub) == MatchAt(Lower(s), i, Lower(sub))

\* Python's "sub in s"
Contains(s, sub) == \E i \in 1..(Len(s) + 1) : MatchAt(s, i, sub)

\* length of the longest run of characters of the class starting at s[i]
RunLen(s, i, class) ==
    IF i > Len(s) THEN 0
    ELSE CHOOSE n \in 0..(Len(s) - i + 1) :
            /\ \A k \in 0..(n - 1) : s[i + k] \in class
            /\ (i + n > Len(s) \/ s[i + n] \notin class)

\* decimal digits of a natural number, str(n)
RECURSIVE Digits(_)
Digits(n) ==
    IF n < 10 THEN <<DigitChars[n + 1]>>
    ELSE Digits(n \div 10) \o <<DigitChars[(n % 10) + 1]>>

\* f"{n:0{width}d}": left-padded with zeros, never truncated
RECURSIVE ZeroPadTo(_, _)
ZeroPadTo(s, width) == IF Len(s) >= width THEN s ELSE ZeroPadTo(<<"0">> \o s, width)

ZeroPad(n, width) == ZeroPadTo(Digits(n), width)

\* int(s) for a string of decimal digits
RECURSIVE ParseInt(_)
ParseInt(s) ==
    IF s = <<>> THEN 0
    ELSE 10 * ParseInt(SubSeq(s, 1, Len(s) - 1)) + DigitValue(s[Len(s)])

\* str.capitalize(): first character upper-cased, the rest lower-cased
Capitalize(s) ==
    [i \in DOMAIN s |-> IF i = 1 THEN ToUpper(s[i]) ELSE ToLower(s[i])]

\* str.title(): a cased character is upper-cased after an uncased one
\* (or at the start) and lower-cased after a cased one
Title(s) ==
    [i \in DOMAIN s |->
        IF i = 1 \/ ~IsAlpha(s[i - 1]) THEN ToUpper(s[i]) ELSE ToLower(s[i])]

\* str.strip('_')
RECURSIVE StripUnderscore(_)
StripUnderscore(s) ==
    IF s = <<>> THEN s
    ELSE IF Head(s) = "_" THEN StripUnderscore(Tail(s))
    ELSE IF s[Len(s)] = "_" THEN StripUnderscore(SubSeq(s, 1, Len(s) - 1))
    ELSE s

\* str.split(sep) for a one-character separator
RECURSIVE SplitOn(_, _)
SplitOn(s, sep) ==
    IF \A i \in DOMAIN s : s[i] # sep THEN <<s>>
    ELSE LET i == CHOOSE j \in DOMAIN s : s[j] = sep /\ \A k \in 1..(j - 1) : s[k] # sep
         IN  <<SubSeq(s, 1, i - 1)>> \o SplitOn(Drop(s, i + 1), sep)

\* re.search: the leftmost of the positions at which the pattern matches,
\* 0 when there is none
Search(matches) ==
    IF matches = {} THEN 0
    ELSE CHOOSE i \in matches : \A j \in matches : i <= j

(***************************************************************************)
(* String constants of the program.                                        *)
(***************************************************************************)
S_dwg == <<".","d","w","g">>

S_pdf == <<".","p","d","f">>

S_xlsx == <<".","x","l","s","x">>

S_xls == <<".","x","l","s">>

S_doc == <<".","d","o","c">>

S_docx == <<".","d","o","c","x">>

W_assembly == <<"a","s","s","e","m","b","l","y">>

W_asm == <<"a","s","m">>

W_main == <<"m","a","i","n">>

W_spec == <<"s","p","e","c">>

W_requirement == <<"r","e","q","u","i","r","e","m","e","n","t">>

W_standard == <<"s","t","a","n","d","a","r","d">>

W_bom == <<"b","o","m">>

W_bill == <<"b","i","l","l">>

W_material == <<"m","a","t","e","r","i","a","l">>

W_project == <<"p","r","o","j","e","c","t">>

W_final == <<"f","i","n","a","l">>

W_actualfinal == <<"a","c","t","u","a","l","f","i","n","a","l">>

W_dwg == <<"d","w","g">>

W_pdf == <<"p","d","f">>

W_xls == <<"x","l","s">>

W_part == <<"p","a","r","t">>

W_prt == <<"p","r","t">>

N_Projects == <<"P","r","o","j","e","c","t","s">>

N_Standards == <<"S","t","a","n","d","a","r","d","s">>

N_Templates == <<"T","e","m","p","l","a","t","e","s">>

N_Migration_Reports == <<"M","i","g","r","a","t","i","o","n","_","R","e","p","o","r","t","s">>

N_Drawings == <<"D","r","a","w","i","n","g","s">>

N_Documentation == <<"D","o","c","u","m","e","n","t","a","t","i","o","n">>

N_BOM == <<"B","O","M">>

N_Misc == <<"M","i","s","c">>

D_MainAssembly == <<"M","a","i","n","A","s","s","e","m","b","l","y">>

D_Component == <<"C","o","m","p","o","n","e","n","t">>

D_Specification == <<"S","p","e","c","i","f","i","c","a","t","i","o","n">>

D_BillOfMaterials == <<"B","i","l","l","O","f","M","a","t","e","r","i","a","l","s">>

D_Document == <<"D","o","c","u","m","e","n","t">>

D_DataSheet == <<"D","a","t","a","S","h","e","e","t">>

D_File == <<"F","i","l","e">>

N_Unknown_Project == <<"U","n","k","n","o","w","n","_","P","r","o","j","e","c","t">>

N_Project_ == <<"P","r","o","j","e","c","t","_">>

(***************************************************************************)
(* The per-file naming pipeline (pure functions of the file name).         *)
(***************************************************************************)

\* pathlib's PurePath.suffix followed by .lower() (_discover_projects):
\* the part from the last dot on, unless that dot is the first or the last
\* character of the name
Suffix(filename) ==
    LET dots == {i \in DOMAIN filename : filename[i] = "."}
    IN  IF dots = {} THEN <<>>
        ELSE LET p == CHOOSE i \in dots : \A j \in dots : j <= i
             IN  IF 1 < p /\ p < Len(filename) THEN Drop(filename, p) ELSE <<>>

Extension(filename) == Lower(Suffix(filename))

\* mutant of _determine_type_code: the keywords are looked up in the
\* filename as it is written
_determine_type_code_CaseSensitive(filename, extension) ==
    IF extension = S_dwg
    THEN (IF \E w \in {W_assembly, W_asm, W_main} : Contains(filename, w)
          THEN "ASM" ELSE "PRT")
    ELSE IF extension = S_pdf
    THEN (IF \E w \in {W_spec, W_requirement, W_standard} : Contains(filename, w)
          THEN "SPEC" ELSE "DOC")
    ELSE IF extension \in {S_xlsx, S_xls}
    THEN (IF \E w \in {W_bom, W_bill, W_material} : Contains(filename, w)
          THEN "BOM" ELSE "DATA")
    ELSE "MISC"

_determine_type_code(filename, extension) ==
    LET filename_lower == Lower(filename)
        any(words) == \E w \in words : Contains(filename_lower, w)
    IN  IF extension = S_dwg
        THEN (IF any({W_assembly, W_asm, W_main}) THEN "ASM" ELSE "PRT")
        ELSE IF extension = S_pdf
        THEN (IF any({W_spec, W_requirement, W_standard}) THEN "SPEC" ELSE "DOC")
        ELSE IF extension \in {S_xlsx, S_xls}
        THEN (IF any({W_bom, W_bill, W_material}) THEN "BOM" ELSE "DATA")
        ELSE "MISC"

\* position after an optional run of white space starting at i (\s*)
SkipSpace(s, i) == i + RunLen(s, i, SpaceClass)

DigitAt(s, i) == i <= Len(s) /\ IsDigit(s[i])

\* [rR]ev\s*(\d+)
RevNumAt(s, i) ==
    /\ i + 2 <= Len(s)
    /\ s[i] \in {"r", "R"} /\ s[i + 1] = "e" /\ s[i + 2] = "v"
    /\ DigitAt(s, SkipSpace(s, i + 3))

\* [rR](\d+)
RNumAt(s, i) == s[i] \in {"r", "R"} /\ DigitAt(s, i + 1)

\* [vV]\s*(\d+)
VNumAt(s, i) == s[i] \in {"v", "V"} /\ DigitAt(s, SkipSpace(s, i + 1))

\* Rev\s*([A-Z])
RevLetterAt(s, i) ==
    /\ i + 2 <= Len(s)
    /\ s[i] = "R" /\ s[i + 1] = "e" /\ s[i + 2] = "v"
    /\ LET j == SkipSpace(s, i + 3) IN j <= Len(s) /\ IsUpper(s[j])

\* _(\d+)(?=\.[^.]*$)
TrailingNumAt(s, i) ==
    /\ s[i] = "_" /\ DigitAt(s, i + 1)
    /\ LET j == i + 1 + RunLen(s, i + 1, DigitClass)
       IN  j <= Len(s) /\ s[j] = "." /\ \A k \in (j + 1)..Len(s) : s[k] # "."

DigitRun(s, j) == SubSeq(s, j, j + RunLen(s, j, DigitClass) - 1)

_extract_revision(filename) ==
    LET p1 == Search({pos \in 1..Len(filename) : RevNumAt(filename, pos)})
        p2 == Search({pos \in 1..Len(filename) : RNumAt(filename, pos)})
        p3 == Search({pos \in 1..Len(filename) : VNumAt(filename, pos)})
        p4 == Search({pos \in 1..Len(filename) : RevLetterAt(filename, pos)})
        p5 == Search({pos \in 1..Len(filename) : TrailingNumAt(filename, pos)})
    IN  IF p1 > 0 THEN <<"R">> \o DigitRun(filename, SkipSpace(filename, p1 + 3))
        ELSE IF p2 > 0 THEN <<"R">> \o DigitRun(filename, p2 + 1)
        ELSE IF p3 > 0 THEN <<"R">> \o DigitRun(filename, SkipSpace(filename, p3 + 1))
        ELSE IF p4 > 0
        THEN LET c == filename[SkipSpace(filename, p4 + 3)]
             IN  <<"R">> \o Digits(CHOOSE n \in 1..26 : UpperChars[n] = c)
        ELSE IF p5 > 0 THEN <<"R">> \o DigitRun(filename, p5 + 1)
        ELSE <<"R", "1">>

\* re.sub(r'\.[^.]*$', '', s): cut from the last dot on ("Remove extension").
\* Line 346 of the file as published has lost the end of the pattern, $';
\* the statement is modelled with the pattern its comment describes.
RemoveExtension(s) ==
    LET dots == {i \in DOMAIN s : s[i] = "."}
    IN  IF dots = {} THEN s
        ELSE SubSeq(s, 1, (CHOOSE i \in dots : \A j \in dots : j <= i) - 1)

CharAtI(s, i, c) == i <= Len(s) /\ ToLower(s[i]) = c

\* length matched at i by [vV]?\d+|[rR]ev?\d*|final|FINAL|actualfinal
\* under re.IGNORECASE (0: no match at i)
VersionTokenLen(s, i) ==
    IF CharAtI(s, i, "v") /\ DigitAt(s, i + 1) THEN 1 + RunLen(s, i + 1, DigitClass)
    ELSE IF DigitAt(s, i) THEN RunLen(s, i, DigitClass)
    ELSE IF CharAtI(s, i, "r") /\ CharAtI(s, i + 1, "e")
    THEN LET k == IF CharAtI(s, i + 2, "v") THEN 3 ELSE 2
         IN  k + RunLen(s, i + k, DigitClass)
    ELSE IF MatchAtI(s, i, W_final) THEN 5
    ELSE IF MatchAtI(s, i, W_actualfinal) THEN 11
    ELSE 0

RECURSIVE RemoveVersionTokens(_, _)
RemoveVersionTokens(s, i) ==
    IF i > Len(s) THEN <<>>
    ELSE LET m == VersionTokenLen(s, i)
         IN  IF m > 0 THEN RemoveVersionTokens(s, i + m)
             ELSE <<s[i]>> \o RemoveVersionTokens(s, i + 1)

IsDashOrUnderscore(c) == c \in {"-", "_"}

\* re.sub(r'^[A-Z]{2,4}[-_]', '', s)
RemoveCodePrefix(s) ==
    LET n == RunLen(s, 1, UpperClass)
    IN  IF n \in 2..4 /\ n + 1 <= Len(s) /\ IsDashOrUnderscore(s[n + 1])
        THEN Drop(s, n + 2) ELSE s

\* length matched at i by dwg|pdf|xlsx?|assembly|asm|part|prt, ignoring case
TypeWordLen(s, i) ==
    IF MatchAtI(s, i, W_dwg) THEN 3
    ELSE IF MatchAtI(s, i, W_pdf) THEN 3
    ELSE IF MatchAtI(s, i, W_xls) THEN (IF CharAtI(s, i + 3, "x") THEN 4 ELSE 3)
    ELSE IF MatchAtI(s, i, W_assembly) THEN 8
    ELSE IF MatchAtI(s, i, W_asm) THEN 3
    ELSE IF MatchAtI(s, i, W_part) THEN 4
    ELSE IF MatchAtI(s, i, W_prt) THEN 3
    ELSE 0

RECURSIVE RemoveTypeWords(_, _)
RemoveTypeWords(s, i) ==
    IF i > Len(s) THEN <<>>
    ELSE LET m == TypeWordLen(s, i)
         IN  IF m > 0 THEN RemoveTypeWords(s, i + m)
             ELSE <<s[i]>> \o RemoveTypeWords(s, i + 1)

SeparatorClass == {"-", "_"} \cup SpaceClass

\* re.sub(r'[-_\s]+', '_', s)
RECURSIVE CollapseSeparators(_, _)
CollapseSeparators(s, i) ==
    IF i > Len(s) THEN <<>>
    ELSE LET m == RunLen(s, i, SeparatorClass)
         IN  IF m > 0 THEN <<"_">> \o CollapseSeparators(s, i + m)
             ELSE <<s[i]>> \o CollapseSeparators(s, i + 1)

DescriptionDefault(type_code) ==
    CASE type_code = "ASM" -> D_MainAssembly
      [] type_code = "PRT" -> D_Component
      [] type_code = "SPEC" -> D_Specification
      [] type_code = "BOM" -> D_BillOfMaterials
      [] type_code = "DOC" -> D_Document
      [] type_code = "DATA" -> D_DataSheet
      [] OTHER -> D_File

RECURSIVE CapitalizeAll(_)
CapitalizeAll(words) ==
    IF words = <<>> THEN <<>>
    ELSE Capitalize(Head(words)) \o CapitalizeAll(Tail(words))

DescriptionMaxLen == 30

_generate_description(filename, type_code) ==
    LET s1 == RemoveExtension(filename)
        s2 == RemoveVersionTokens(s1, 1)
        s3 == RemoveCodePrefix(s2)
        s4 == RemoveTypeWords(s3, 1)
        s5 == StripUnderscore(CollapseSeparators(s4, 1))
        s6 == IF Len(s5) < 3 THEN DescriptionDefault(type_code) ELSE s5
        s7 == CapitalizeAll(SplitOn(s6, "_"))
    IN  Take(s7, DescriptionMaxLen)

(***************************************************************************)
(* Project identity from the folder path (a path is the sequence of its    *)
(* segments; the source root itself is the empty sequence).                *)
(***************************************************************************)

RECURSIVE JoinPath(_)
JoinPath(parts) ==
    IF Len(parts) = 1 THEN parts[1]
    ELSE parts[1] \o <<"/">> \o JoinPath(Tail(parts))

\* str(relative_path): pathlib renders the empty relative path as "."
PathStr(parts) == IF parts = <<>> THEN <<".">> ELSE JoinPath(parts)

UnderscoreOrSpaceClass == {"_"} \cup SpaceClass

\* project[_\s]*([a-zA-Z]+), ignoring case
ProjectWordAt(s, i) ==
    /\ MatchAtI(s, i, W_project)
    /\ LET j == i + 7 + RunLen(s, i + 7, UnderscoreOrSpaceClass)
       IN  j <= Len(s) /\ IsAlpha(s[j])

\* 20\d{2}
YearAt(s, i) ==
    /\ i + 3 <= Len(s)
    /\ s[i] = "2" /\ s[i + 1] = "0" /\ IsDigit(s[i + 2]) /\ IsDigit(s[i + 3])

\* re.sub(r'20\d{2}[_\s]*', '', s)
RECURSIVE RemoveYears(_, _)
RemoveYears(s, i) ==
    IF i > Len(s) THEN <<>>
    ELSE IF YearAt(s, i)
         THEN RemoveYears(s, i + 4 + RunLen(s, i + 4, UnderscoreOrSpaceClass))
         ELSE <<s[i]>> \o RemoveYears(s, i + 1)

IsNameSeparator(c) == c \in {"_", "/", "\\"} \/ IsSpace(c)

\* re.split(r'[_\s/\\]+', s)[0]: the text before the first separator
FirstSplit(s) ==
    LET seps == {i \in DOMAIN s : IsNameSeparator(s[i])}
    IN  IF seps = {} THEN s
        ELSE SubSeq(s, 1, (CHOOSE i \in seps : \A j \in seps : i <= j) - 1)

\* ([A-Z]{2,4})[-_]
CodeAt(s, i) ==
    LET n == RunLen(s, i, UpperClass)
    IN  n \in 2..4 /\ i + n <= Len(s) /\ IsDashOrUnderscore(s[i + n])

ReplaceSpaces(s) == [i \in DOMAIN s |-> IF s[i] = " " THEN "_" ELSE s[i]]

_identify_project_from_path(relative_path) ==
    LET path_str == PathStr(relative_path)
        p1 == Search({pos \in 1..Len(path_str) : ProjectWordAt(path_str, pos)})
        p2 == Search({pos \in 1..Len(path_str) : YearAt(path_str, pos)})
        p3 == Search({pos \in 1..Len(path_str) : CodeAt(path_str, pos)})
        parts == SelectSeq(relative_path, LAMBDA p : p # <<>> /\ p[1] # ".")
    IN  IF Contains(Lower(path_str), W_project) /\ p1 > 0
        THEN LET j == p1 + 7 + RunLen(path_str, p1 + 7, UnderscoreOrSpaceClass)
             IN  Title(SubSeq(path_str, j, j + RunLen(path_str, j, AlphaClass) - 1))
        ELSE IF p2 > 0
        THEN LET year == SubSeq(path_str, p2, p2 + 3)
                 remaining == RemoveYears(path_str, 1)
             IN  IF remaining # <<>>
                 THEN FirstSplit(remaining) \o <<"_">> \o year
                 ELSE N_Project_ \o year
        ELSE IF p3 > 0
        THEN SubSeq(path_str, p3, p3 + RunLen(path_str, p3, UpperClass) - 1)
        ELSE IF parts # <<>> THEN Title(ReplaceSpaces(parts[1]))
        ELSE N_Unknown_Project

DefaultYear == 2020

_extract_year_from_path(relative_path) ==
    LET path_str == PathStr(relative_path)
        p == Search({pos \in 1..Len(path_str) : YearAt(path_str, pos)})
    IN  IF p > 0 THEN ParseInt(SubSeq(path_str, p, p + 3)) ELSE DefaultYear

(***************************************************************************)
(* Composition of the new names.                                           *)
(***************************************************************************)

\* f"{prefix}{counter:0{digits}d}"
ProjectId(rules, counter) == rules.project_prefix \o ZeroPad(counter, rules.project_digits)

\* re.sub(r'[^a-zA-Z0-9]', '', original_name)
CleanName(original_name) == SelectSeq(original_name, IsAlnum)

\* f"{new_project_id}_{clean_name}_{project_year}"
ProjectFolderName(new_project_id, original_name, project_year) ==
    new_project_id \o <<"_">> \o CleanName(original_name) \o <<"_">> \o Digits(project_year)

SequenceWidth == 3

\* str.format on the naming template: a template is a sequence of tokens,
\* each a literal character or one of the six replacement fields
RECURSIVE Format(_, _)
Format(template, fields) ==
    IF template = <<>> THEN <<>>
    ELSE (IF Head(template) \in DOMAIN fields
          THEN fields[Head(template)] ELSE <<Head(template)>>)
         \o Format(Tail(template), fields)

ReservedChars == {"<", ">", ":", "\"", "/", "\\", "|", "?", "*"}

\* mutant of Sanitize: the character class lacks the angle brackets and the colon
Sanitize_Incomplete(s) ==
    [i \in DOMAIN s |-> IF s[i] \in ReservedChars \ {"<", ">", ":"} THEN "_" ELSE s[i]]

\* re.sub(r'[<>:"/\\|?*]', '_', new_filename)
Sanitize(s) == [i \in DOMAIN s |-> IF s[i] \in ReservedChars THEN "_" ELSE s[i]]

\* the characters of a type code
TypeCodeStr(type_code) ==
    CASE type_code = "ASM" -> <<"A", "S", "M">>
      [] type_code = "PRT" -> <<"P", "R", "T">>
      [] type_code = "SPEC" -> <<"S", "P", "E", "C">>
      [] type_code = "DOC" -> <<"D", "O", "C">>
      [] type_code = "BOM" -> <<"B", "O", "M">>
      [] type_code = "DATA" -> <<"D", "A", "T", "A">>
      [] type_code = "MISC" -> <<"M", "I", "S", "C">>

\* mutant of NewFilename: every file is given the sequence number 1
NewFilename_NoSequence(rules, project_id, type_code, counter, description, revision, extension) ==
    Sanitize(Format(rules.naming_convention,
        [ project_id  |-> project_id,
          type_code   |-> TypeCodeStr(type_code),
          sequence    |-> ZeroPad(1, SequenceWidth),
          description |-> description,
          revision    |-> revision,
          ext         |-> Drop(extension, 2) ]))

\* new_filename of _transform_file: the template filled in, then sanitized
NewFilename(rules, project_id, type_code, counter, description, revision, extension) ==
    Sanitize(Format(rules.naming_convention,
        [ project_id  |-> project_id,
          type_code   |-> TypeCodeStr(type_code),
          sequence    |-> ZeroPad(counter, SequenceWidth),
          description |-> description,
          revision    |-> revision,
          ext         |-> Drop(extension, 2) ]))

(***************************************************************************)
(* Bounds of the model.                                                    *)
(***************************************************************************)

\* largest number of files in the source tree
MaxFiles == 3

\* number of transformation runs (fresh transformers) in SpecTwoRuns
MaxRuns == 2
MaxFilesTwoRuns == 2

\* largest number of files in the tree of an analysis, and the number of
\* calls of analyze_archive on one analyzer
MaxAnalyzerFiles == 3
MaxAnalyses == 1

\* number of calls of analyze_archive on one analyzer in SpecRepeated, and
\* the largest number of files in its trees
MaxRepeatedAnalyses == 3
MaxFilesRepeated == 2

\* largest number of files in the tree of a run under a partial rule set
MaxFilesRules == 2

(***************************************************************************)
(* The source trees.  A file is [folder, filename, size, mtime]; the tree   *)
(* of a transformation is a set of at most MaxFiles of the files below.    *)
(***************************************************************************)

\* 1024 * 1024 of _generate_transformation_report
BytesPerMB == 1048576

File(folder, filename, size) ==
    [folder |-> folder, filename |-> filename, size |-> size, mtime |-> 1]

\* a file with its modification time (a day number)
FileAt(folder, filename, size, mtime) ==
    [folder |-> folder, filename |-> filename, size |-> size, mtime |-> mtime]

Dir_Root == <<>>

Dir_ProjectAlpha == << <<"P","r","o","j","e","c","t","A","l","p","h","a">> >>

Dir_Project_Alpha == << <<"P","r","o","j","e","c","t","_","A","l","p","h","a">> >>

Dir_GAM == << <<"G","A","M","-","0","1">> >>

AllFiles ==
    { File(Dir_ProjectAlpha,  <<"m","a","i","n","_","v","1",".","d","w","g">>, 1572864),
      File(Dir_ProjectAlpha,  <<"n","o","t","e","s",".","p","d","f">>, 2 * BytesPerMB + 1),
      File(Dir_ProjectAlpha,  <<"l","i","d","<","2",">",".","d","w","g">>, 262144),
      File(Dir_Project_Alpha, <<"m","a","i","n","_","v","1",".","d","w","g">>, BytesPerMB),
      File(Dir_GAM,           <<"s","p","e","c","_","A",".","p","d","f">>, 100000),
      File(Dir_GAM,           <<"x",".","t","x","t">>, 10486),
      File(Dir_GAM,           <<"d","a","t","a",".","x","l","s">>, 786432),
      File(Dir_Root,          <<"m","e","m","o",".","d","o","c">>, 524288),
      File(Dir_Root,          <<"b","o","m",".","x","l","s","x">>, 1310720) }

SourceTrees == {t \in SUBSET AllFiles : Cardinality(t) <= MaxFiles}

Dir_TempFolder == << <<"T","e","m","p","F","o","l","d","e","r">> >>

Dir_Work == << <<"W","o","r","k">> >>

\* the files of the trees that are analyzed
AnalyzerFiles ==
    { FileAt(Dir_Root, <<"P","r","o","j","_","v","1","_","f","i","n","a","l",".","d","w","g">>, 40000, 1),
      FileAt(Dir_Root, <<"P","r","o","j","_","v","2","_","f","i","n","a","l",".","d","w","g">>, 50000, 2),
      FileAt(Dir_TempFolder, <<"P","r","o","j","_","v","3","_","f","i","n","a","l",".","d","w","g">>, 60000, 2),
      FileAt(Dir_Work, <<"2","4","0","1","1","5",".","p","d","f">>, 30000, 400),
      FileAt(Dir_Root, <<"2","4","0","1","1","5",".","p","d","f">>, 30000, 3),
      FileAt(Dir_Work, <<"o","l","d","_","G","A","-","7",".","x","l","s">>, 20000, 5),
      FileAt(Dir_Work, <<"-","r","e","v","2",".","d","w","g">>, 10000, 6),
      FileAt(Dir_Root, <<"f","i","n","a","l",".","P","D","F">>, 70000, 7),
      FileAt(Dir_Work, <<"a","b",".","t","x","t">>, 500, 8),
      FileAt(Dir_Root, <<"G","A","-","0","0","1","-","x",".","d","w","g">>, 1100000, 9) }

AnalyzerTrees == {t \in SUBSET AnalyzerFiles : Cardinality(t) <= MaxAnalyzerFiles}

\* the orders in which os.walk (top-down) can enumerate the files of a tree:
\* the files of the root first, then folder by folder, the folders and the
\* files of a folder in whatever order the file system lists them
Walks(tree) ==
    LET n == Cardinality(tree)
    IN  { w \in [1..n -> tree] :
            /\ \A i, j \in 1..n : i # j => w[i] # w[j]
            /\ \A i, j \in 1..n : (i < j /\ w[j].folder = Dir_Root) => w[i].folder = Dir_Root
            /\ \A i, j, k \in 1..n :
                 (i < j /\ j < k /\ w[i].folder = w[k].folder) => w[j].folder = w[i].folder }

(***************************************************************************)
(* Transformation rules.                                                   *)
(***************************************************************************)

\* ArchiveTransformer._default_rules
DefaultRules ==
    [ project_prefix    |-> <<"P">>,
      project_digits    |-> 3,
      revision_format   |-> <<"R", "number">>,
      folder_structure  |-> [ drawings      |-> N_Drawings,
                              documentation |-> N_Documentation,
                              bom           |-> N_BOM,
                              standards     |-> N_Standards ],
      file_type_mapping |-> (S_dwg :> "drawings") @@ (S_pdf :> "documentation")
                            @@ (S_xlsx :> "bom") @@ (S_xls :> "bom")
                            @@ (S_doc :> "documentation") @@ (S_docx :> "documentation"),
      naming_convention |-> <<"project_id", "-", "type_code", "-", "sequence", "_",
                              "description", "_", "revision", ".", "ext">> ]

\* a custom rule set (transformation_rules argument of the constructor)
CustomRules ==
    [ project_prefix    |-> <<"X", ":">>,
      project_digits    |-> 2,
      revision_format   |-> <<"R", "number">>,
      folder_structure  |-> [ drawings      |-> <<"C", "A", "D">>,
                              documentation |-> <<"D", "o", "c", "s">>,
                              bom           |-> N_BOM,
                              misc          |-> N_Misc ],
      file_type_mapping |-> (S_dwg :> "drawings") @@ (S_pdf :> "documentation")
                            @@ (S_xlsx :> "bom"),
      naming_convention |-> <<"project_id", ":", "sequence", "/", "description", "?",
                              "revision", "|", "type_code", ".", "ext">> ]

RuleSets == {DefaultRules, CustomRules}

\* the keys _transform_project and _transform_file read with
\* self.transformation_rules[key]
RequiredKeys ==
    {"project_prefix", "project_digits", "folder_structure", "file_type_mapping",
     "naming_convention"}

\* a rule set without the given keys, as a rules file that omits them gives
Omit(rules, keys) == [k \in DOMAIN rules \ keys |-> rules[k]]

\* custom rule sets that omit options: each required key in turn, the
\* unread revision_format, and all but project_prefix
PartialRuleSets ==
    {Omit(DefaultRules, {k}) : k \in RequiredKeys \cup {"revision_format"}}
        \cup {Omit(CustomRules, DOMAIN CustomRules \ {"project_prefix"})}

\* dict.get(key, default)
Get(dict, key, default) == IF key \in DOMAIN dict THEN dict[key] ELSE default

\* dict[key] = value
Put(dict, key, value) ==
    [k \in DOMAIN dict \cup {key} |-> IF k = key THEN value ELSE dict[k]]

EmptyDict == [k \in {} |-> 0]

(***************************************************************************)
(* _discover_projects: the files in walk order, grouped by project key.    *)
(* The dict it returns is the sequence of its groups in insertion order.   *)
(***************************************************************************)

FileInfo(f) ==
    [ source_path   |-> Append(f.folder, f.filename),
      filename      |-> f.filename,
      extension     |-> Extension(f.filename),
      size          |-> f.size,
      relative_path |-> f.folder ]

GroupIndex(projs, key) ==
    IF \E i \in DOMAIN projs : projs[i].original_name = key
    THEN CHOOSE i \in DOMAIN projs : projs[i].original_name = key
    ELSE 0

\* mutant of DiscoverFrom: a file of a known group replaces the files of the group
RECURSIVE DiscoverFrom_Replace(_, _, _)
DiscoverFrom_Replace(w, i, projs) ==
    IF i > Len(w) THEN projs
    ELSE LET f == w[i]
             project_id == _identify_project_from_path(f.folder)
             idx == GroupIndex(projs, project_id)
         IN  IF idx = 0
             THEN DiscoverFrom_Replace(w, i + 1,
                    Append(projs, [ original_name  |-> project_id,
                                    files          |-> <<FileInfo(f)>>,
                                    source_folders |-> {PathStr(f.folder)},
                                    year           |-> _extract_year_from_path(f.folder) ]))
             ELSE DiscoverFrom_Replace(w, i + 1,
                    [projs EXCEPT ![idx].files = <<FileInfo(f)>>,
                                  ![idx].source_folders = @ \cup {PathStr(f.folder)}])

RECURSIVE DiscoverFrom(_, _, _)
DiscoverFrom(w, i, projs) ==
    IF i > Len(w) THEN projs
    ELSE LET f == w[i]
             project_id == _identify_project_from_path(f.folder)
             idx == GroupIndex(projs, project_id)
         IN  IF idx = 0
             THEN DiscoverFrom(w, i + 1,
                    Append(projs, [ original_name  |-> project_id,
                                    files          |-> <<FileInfo(f)>>,
                                    source_folders |-> {PathStr(f.folder)},
                                    year           |-> _extract_year_from_path(f.folder) ]))
             ELSE DiscoverFrom(w, i + 1,
                    [projs EXCEPT ![idx].files = Append(@, FileInfo(f)),
                                  ![idx].source_folders = @ \cup {PathStr(f.folder)}])

_discover_projects(w) == DiscoverFrom(w, 1, <<>>)

(***************************************************************************)
(* The transformer object.  The operators below take the object's fields   *)
(* together with the target file system as one record                      *)
(*   self = [transformation_log, project_counter, project_mappings,        *)
(*           target_dirs, target_files, attempts, now]                     *)
(* and return the record after the call; a call that raises returns the    *)
(* state at the point of the raise and the name of the exception.          *)
(* attempts is a history of the _transform_file invocations and now is the *)
(* clock read by datetime.now().                                           *)
(***************************************************************************)

\* file_counters of _transform_project
InitialFileCounters == [ASM |-> 1, PRT |-> 1, SPEC |-> 1, BOM |-> 1, MISC |-> 1]

\* _create_target_structure: the directories of the target skeleton
\* (a directory is its path below target_path; <<>> is target_path itself)
Skeleton ==
    { <<>>, <<N_Projects>>, <<N_Standards>>, <<N_Standards, N_Templates>>,
      <<N_Migration_Reports>> }

_create_target_structure(self) == [self EXCEPT !.target_dirs = @ \cup Skeleton]

\* mutant of copy2: the file is moved, as shutil.move does
copy2_Moves(tree, source_path) == {f \in tree : Append(f.folder, f.filename) # source_path}

\* the source tree after shutil.copy2(source_path, target_path), whether it
\* raised or not: the source file is opened for reading only
copy2(tree, source_path) == tree

\* mutant of CountersAfter: the counter advances whether the copy succeeded or not
CountersAfter_Always(file_counters, type_code, copy_ok) ==
    [file_counters EXCEPT ![type_code] = @ + 1]

\* file_counters after the try statement of _transform_file:
\* "file_counters[type_code] += 1" is the last statement of the try block,
\* which an exception raised by shutil.copy2 skips
CountersAfter(file_counters, type_code, copy_ok) ==
    IF copy_ok THEN [file_counters EXCEPT ![type_code] = @ + 1] ELSE file_counters

\* _transform_file from shutil.copy2 on: the copy, the log entry and the
\* counter.  copy_fails is the set of source paths whose copy the
\* environment makes fail; a copy into a missing directory always fails.
\* Returns [self, file_counters, raised].
CopyAndLog(self, file_info, project_id, file_counters, copy_fails, target_folder, type_code, new_filename) ==
    LET source_path   == file_info.source_path
        target_path   == Append(target_folder, new_filename)
        folder_exists == target_folder \in self.target_dirs
        copy_ok       == folder_exists /\ source_path \notin copy_fails
        attempt       == [ source_path |-> source_path, project_id |-> project_id,
                           type_code |-> type_code,
                           sequence |-> file_counters[type_code],
                           target_folder |-> target_folder,
                           folder_existed |-> folder_exists,
                           outcome |-> IF copy_ok THEN "SUCCESS" ELSE "FAILED" ]
    IN  IF copy_ok
        THEN [ self |-> [self EXCEPT
                  !.target_files = @ \cup {target_path},
                  !.transformation_log = Append(@,
                      [ timestamp         |-> self.now + 1,
                        source_path       |-> source_path,
                        target_path       |-> target_path,
                        original_filename |-> file_info.filename,
                        new_filename      |-> new_filename,
                        project_id        |-> project_id,
                        file_size         |-> file_info.size,
                        status            |-> "SUCCESS" ]),
                  !.now = @ + 1,
                  !.source_tree = copy2(@, source_path),
                  !.attempts = Append(@, attempt)],
               file_counters |-> CountersAfter(file_counters, type_code, TRUE),
               raised |-> "none" ]
        ELSE [ self |-> [self EXCEPT
                  !.transformation_log = Append(@,
                      [ timestamp         |-> self.now + 1,
                        source_path       |-> source_path,
                        original_filename |-> file_info.filename,
                        error             |-> IF folder_exists THEN "OSError"
                                              ELSE "FileNotFoundError",
                        status            |-> "FAILED" ]),
                  !.now = @ + 1,
                  !.source_tree = copy2(@, source_path),
                  !.attempts = Append(@, attempt)],
               file_counters |-> CountersAfter(file_counters, type_code, FALSE),
               raised |-> "none" ]

\* _transform_file when self.transformation_rules[key] raises KeyError for a
\* key the rule set lacks
RuleKeyError(self, file_info, project_id, file_counters, target_folder, type_code) ==
    [ self |-> [self EXCEPT !.attempts = Append(@,
                   [ source_path |-> file_info.source_path, project_id |-> project_id,
                     type_code |-> type_code, sequence |-> 0,
                     target_folder |-> target_folder,
                     outcome |-> "KeyError" ])],
      file_counters |-> file_counters,
      raised |-> "KeyError" ]

\* _transform_file from the classification on: the sequence number of the
\* type code and the new filename
NameAndCopy(self, file_info, project_id, file_counters, rules, copy_fails, target_folder, type_code) ==
    IF type_code \notin DOMAIN file_counters
    THEN \* file_counters[type_code] raises KeyError, outside the try block
         [ self |-> [self EXCEPT !.attempts = Append(@,
                        [ source_path |-> file_info.source_path, project_id |-> project_id,
                          type_code |-> type_code, sequence |-> 0,
                          target_folder |-> target_folder,
                          outcome |-> "KeyError" ])],
           file_counters |-> file_counters,
           raised |-> "KeyError" ]
    ELSE IF "naming_convention" \notin DOMAIN rules
    THEN \* self.transformation_rules['naming_convention'] raises KeyError,
         \* outside the try block
         RuleKeyError(self, file_info, project_id, file_counters, target_folder, type_code)
    ELSE CopyAndLog(self, file_info, project_id, file_counters, copy_fails,
                    target_folder, type_code,
                    NewFilename(rules, project_id, type_code, file_counters[type_code],
                                _generate_description(file_info.filename, type_code),
                                _extract_revision(file_info.filename),
                                file_info.extension))

\* _transform_file.  Returns [self, file_counters, raised].
_transform_file(self, file_info, project_id, project_base, file_counters, rules, copy_fails) ==
    IF "file_type_mapping" \notin DOMAIN rules
    THEN \* self.transformation_rules['file_type_mapping'] raises KeyError
         RuleKeyError(self, file_info, project_id, file_counters, project_base,
                      _determine_type_code(file_info.filename, file_info.extension))
    ELSE
    NameAndCopy(self, file_info, project_id, file_counters, rules, copy_fails,
                Append(project_base,
                       Get(rules.folder_structure,
                           Get(rules.file_type_mapping, file_info.extension, "misc"),
                           N_Misc)),
                _determine_type_code(file_info.filename, file_info.extension))

\* the loop "for file_info in project_data['files']" of _transform_project:
\* an exception raised by _transform_file ends it
RECURSIVE TransformFiles(_, _, _, _, _, _, _, _)
RECURSIVE NextFile(_, _, _, _, _, _, _)

TransformFiles(self, files, i, project_id, project_base, file_counters, rules, copy_fails) ==
    IF i > Len(files) THEN [self |-> self, raised |-> "none"]
    ELSE NextFile(_transform_file(self, files[i], project_id, project_base,
                                  file_counters, rules, copy_fails),
                  files, i, project_id, project_base, rules, copy_fails)

\* r is what _transform_file returned for files[i]
NextFile(r, files, i, project_id, project_base, rules, copy_fails) ==
    IF r.raised # "none" THEN [self |-> r.self, raised |-> r.raised]
    ELSE TransformFiles(r.self, files, i + 1, project_id, project_base,
                        r.file_counters, rules, copy_fails)

\* the argument of a call: a project group (a dict) or a project key (a str)
DictArg(group) == [kind |-> "dict", value |-> group]

StrArg(key) == [kind |-> "str", value |-> key]

\* self.project_counter += 1, the last statement of _transform_project,
\* which an exception raised in the loop over the files skips
CountProject(r) ==
    IF r.raised # "none" THEN r
    ELSE [self |-> [r.self EXCEPT !.project_counter = @ + 1], raised |-> "none"]

\* _transform_project.  Returns [self, raised].
_transform_project(self, project_data, rules, copy_fails) ==
    IF project_data.kind # "dict"
    THEN \* project_data['original_name'] on a str raises TypeError
         [self |-> self, raised |-> "TypeError"]
    ELSE IF ~ ({"project_prefix", "project_digits"} \subseteq DOMAIN rules)
    THEN \* self.transformation_rules['project_prefix'] or ['project_digits']
         \* raises KeyError
         [self |-> self, raised |-> "KeyError"]
    ELSE
    LET original_name  == project_data.value.original_name
        project_year   == project_data.value.year
        new_project_id == ProjectId(rules, self.project_counter)
        project_folder_name == ProjectFolderName(new_project_id, original_name, project_year)
        mapped == [self EXCEPT !.project_mappings = Put(@, original_name,
                     [ new_id        |-> new_project_id,
                       folder_name   |-> project_folder_name,
                       original_name |-> original_name ])]
        project_base == <<N_Projects, project_folder_name>>
    IN  IF <<N_Projects>> \notin self.target_dirs
        THEN \* project_base.mkdir(exist_ok=True) without its parent
             [self |-> mapped, raised |-> "FileNotFoundError"]
        ELSE IF "folder_structure" \notin DOMAIN rules
        THEN \* self.transformation_rules['folder_structure'] raises KeyError,
             \* after project_base.mkdir
             [self |-> [mapped EXCEPT !.target_dirs = @ \cup {project_base}],
              raised |-> "KeyError"]
        ELSE
        LET subdirs == {Append(project_base, rules.folder_structure[c]) :
                            c \in DOMAIN rules.folder_structure}
            made == [mapped EXCEPT !.target_dirs = @ \cup {project_base} \cup subdirs]
        IN  CountProject(TransformFiles(made, project_data.value.files, 1, new_project_id,
                                        project_base, InitialFileCounters, rules, copy_fails))

\* mutant of RoundDiv: the quotient truncated instead of rounded
RoundDiv_Truncated(num, den) == num \div den

\* num / den rounded to the nearest integer (half to even), as round() does
\* on the last decimal it keeps
RoundDiv(num, den) ==
    LET q == num \div den
        r == num % den
    IN  IF 2 * r < den THEN q
        ELSE IF 2 * r > den THEN q + 1
        ELSE IF q % 2 = 0 THEN q ELSE q + 1

\* mutant of SumSizes: the test of the status is inverted
RECURSIVE SumSizes_Failed(_)
SumSizes_Failed(log) ==
    IF log = <<>> THEN 0
    ELSE (IF Head(log).status # "SUCCESS" THEN Get(Head(log), "file_size", 0) ELSE 0)
         + SumSizes_Failed(Tail(log))

\* sum(log.get('file_size', 0) for log in self.transformation_log
\*     if log['status'] == 'SUCCESS')
RECURSIVE SumSizes(_)
SumSizes(log) ==
    IF log = <<>> THEN 0
    ELSE (IF Head(log).status = "SUCCESS" THEN Get(Head(log), "file_size", 0) ELSE 0)
         + SumSizes(Tail(log))

\* the report built by _generate_transformation_report; success_rate is in
\* hundredths of a percent and total_size_mb in hundredths of a megabyte
TransformationReport(self, rules) ==
    LET log == self.transformation_log
        total_files == Len(log)
        successful_files == Cardinality({i \in DOMAIN log : log[i].status = "SUCCESS"})
        failed_files == total_files - successful_files
        total_size == SumSizes(log)
    IN  [ transformation_summary |->
            [ timestamp                  |-> self.now + 1,
              total_projects             |-> Cardinality(DOMAIN self.project_mappings),
              total_files_processed      |-> total_files,
              successful_transformations |-> successful_files,
              failed_transformations     |-> failed_files,
              success_rate               |-> IF total_files > 0
                                             THEN RoundDiv(10000 * successful_files, total_files)
                                             ELSE 0,
              total_size_mb              |-> RoundDiv(100 * total_size, BytesPerMB) ],
          project_mappings     |-> self.project_mappings,
          transformation_rules |-> rules,
          detailed_log         |-> log ]

ReportFiles ==
    { <<N_Migration_Reports,
        <<"t","r","a","n","s","f","o","r","m","a","t","i","o","n","_",
          "r","e","p","o","r","t",".","j","s","o","n">> >>,
      <<N_Migration_Reports,
        <<"t","r","a","n","s","f","o","r","m","a","t","i","o","n","_",
          "s","u","m","m","a","r","y",".","t","x","t">> >> }

\* _generate_transformation_report.  Returns [self, raised, report]; the
\* report files are opened for writing in Migration_Reports
_generate_transformation_report(self, rules) ==
    IF <<N_Migration_Reports>> \notin self.target_dirs
    THEN [self |-> [self EXCEPT !.now = @ + 1], raised |-> "FileNotFoundError", report |-> <<>>]
    ELSE [ self |-> [self EXCEPT !.now = @ + 2, !.target_files = @ \cup ReportFiles],
           raised |-> "none",
           report |-> <<TransformationReport(self, rules)>> ]

\* the loop "for project in projects" of transform_archive, given the
\* sequence of values the iteration yields
RECURSIVE TransformAll(_, _, _, _, _)
RECURSIVE NextProject(_, _, _, _, _)

TransformAll(self, iterated, i, rules, copy_fails) ==
    IF i > Len(iterated) THEN [self |-> self, raised |-> "none"]
    ELSE NextProject(_transform_project(self, iterated[i], rules, copy_fails),
                     iterated, i, rules, copy_fails)

\* r is what _transform_project returned for iterated[i]
NextProject(r, iterated, i, rules, copy_fails) ==
    IF r.raised # "none" THEN r
    ELSE TransformAll(r.self, iterated, i + 1, rules, copy_fails)

\* iterating a dict yields its keys
IterateDict(projs) == [i \in DOMAIN projs |-> StrArg(projs[i].original_name)]

\* the end of transform_archive: the report, unless the loop over the
\* projects raised
ReportAfter(r, rules) ==
    IF r.raised # "none" THEN [self |-> r.self, raised |-> r.raised, report |-> <<>>]
    ELSE _generate_transformation_report(r.self, rules)

\* transform_archive, given the result of its discovery phase.
\* Returns [self, raised, report].
transform_archive(self, projs, rules, copy_fails) ==
    ReportAfter(TransformAll(_create_target_structure(self), IterateDict(projs), 1,
                             rules, copy_fails),
                rules)

(***************************************************************************)
(* The analyzer (scripts/scan_archive.py).  Its operators take the         *)
(* analyzer's fields as one record                                         *)
(*   self = [files_data, naming_patterns, file_relationships,              *)
(*           version_conflicts, orphaned_files]                            *)
(* and return the record after the call.  A dict is the function from its  *)
(* keys; where the order of the keys matters (the groups of                *)
(* _detect_version_conflicts) it is the sequence of its items in insertion *)
(* order.  modified_date is a day number.                                  *)
(***************************************************************************)

\* the entry of files_data for one file
CatalogEntry(f) ==
    [ relative_path |-> Append(f.folder, f.filename),
      filename      |-> f.filename,
      extension     |-> Extension(f.filename),
      size_bytes    |-> f.size,
      modified_date |-> f.mtime,
      folder_depth  |-> Len(f.folder),
      parent_folder |-> IF f.folder = <<>> THEN <<>> ELSE f.folder[Len(f.folder)],
      project_path  |-> IF f.folder = <<>> THEN f.filename ELSE f.folder[1] ]

\* _discover_files: os.walk over a root that does not exist yields nothing
_discover_files(self, w) ==
    [self EXCEPT !.files_data = @ \o [i \in DOMAIN w |-> CatalogEntry(w[i])]]

\* length of the suffix matched by \.(dwg|pdf|xlsx?)$ under re.IGNORECASE,
\* 0 when the name does not end so
TypedSuffixLen(s) ==
    IF MatchAtI(s, Len(s) - 4, <<".","x","l","s","x">>) THEN 5
    ELSE IF \E e \in {S_dwg, S_pdf, S_xls} : MatchAtI(s, Len(s) - 3, e) THEN 4
    ELSE 0

\* ^[A-Za-z_]+.*[vV]?\d+.* before the suffix
DescriptiveWithVersion(s, e) ==
    /\ s[1] \in AlphaClass \cup {"_"}
    /\ \E i \in 2..e : IsDigit(s[i])

\* ^[A-Z]{2,4}[-_]\d{3}[-_].* before the suffix
ProjectCodeSequential(s, e) ==
    \E n \in 2..4 :
        /\ n + 5 <= e
        /\ \A k \in 1..n : IsAlpha(s[k])
        /\ IsDashOrUnderscore(s[n + 1])
        /\ \A k \in (n + 2)..(n + 4) : IsDigit(s[k])
        /\ IsDashOrUnderscore(s[n + 5])

\* ^[A-Z]\d{3}[-_][A-Z]{3}[-_]\d{3}.* before the suffix
StructuredCode(s, e) ==
    /\ 12 <= e
    /\ IsAlpha(s[1])
    /\ \A k \in 2..4 : IsDigit(s[k])
    /\ IsDashOrUnderscore(s[5])
    /\ \A k \in 6..8 : IsAlpha(s[k])
    /\ IsDashOrUnderscore(s[9])
    /\ \A k \in 10..12 : IsDigit(s[k])

\* .*\d{6}.* before the suffix
DateBased(s, e) == \E i \in 1..(e - 5) : \A k \in i..(i + 5) : IsDigit(s[k])

\* .*[rR]ev?\d+.* before the suffix
RevisionControlled(s, e) ==
    \E i \in 1..(e - 2) :
        /\ CharAtI(s, i, "r") /\ CharAtI(s, i + 1, "e")
        /\ \/ IsDigit(s[i + 2])
           \/ (CharAtI(s, i + 2, "v") /\ i + 3 <= e /\ IsDigit(s[i + 3]))

\* .*[fF][iI][nN][aA][lL].* before the suffix
FinalVersions(s, e) == \E i \in 1..(e - 4) : MatchAtI(s, i, W_final)

\* the patterns of _identify_naming_patterns in the order of the dict
PatternNames ==
    << "descriptive_with_version", "project_code_sequential", "structured_code",
       "date_based", "revision_controlled", "final_versions" >>

\* re.match(patterns[name], filename, re.IGNORECASE)
MatchesPattern(name, s) ==
    LET n == TypedSuffixLen(s)
        e == Len(s) - n
    IN  /\ n > 0
        /\ e >= 1
        /\ CASE name = "descriptive_with_version" -> DescriptiveWithVersion(s, e)
             [] name = "project_code_sequential"  -> ProjectCodeSequential(s, e)
             [] name = "structured_code"          -> StructuredCode(s, e)
             [] name = "date_based"               -> DateBased(s, e)
             [] name = "revision_controlled"      -> RevisionControlled(s, e)
             [] name = "final_versions"           -> FinalVersions(s, e)

\* mutant of PatternOf: the last pattern that matches instead of the first
PatternOf_LastMatch(filename) ==
    IF \E k \in DOMAIN PatternNames : MatchesPattern(PatternNames[k], filename)
    THEN PatternNames[CHOOSE k \in DOMAIN PatternNames :
                        /\ MatchesPattern(PatternNames[k], filename)
                        /\ \A j \in (k + 1)..Len(PatternNames) :
                              ~MatchesPattern(PatternNames[j], filename)]
    ELSE "unclassified"

\* the bucket of a filename: the first pattern that matches (break), or
\* 'unclassified' (the else of the for loop)
PatternOf(filename) ==
    IF \E k \in DOMAIN PatternNames : MatchesPattern(PatternNames[k], filename)
    THEN PatternNames[CHOOSE k \in DOMAIN PatternNames :
                        /\ MatchesPattern(PatternNames[k], filename)
                        /\ \A j \in 1..(k - 1) : ~MatchesPattern(PatternNames[j], filename)]
    ELSE "unclassified"

\* defaultdict(list)[key].append(value)
AppendTo(dict, key, value) == Put(dict, key, Append(Get(dict, key, <<>>), value))

RECURSIVE BucketFrom(_, _, _)
BucketFrom(files_data, i, buckets) ==
    IF i > Len(files_data) THEN buckets
    ELSE BucketFrom(files_data, i + 1,
                    AppendTo(buckets, PatternOf(files_data[i].filename), files_data[i]))

_identify_naming_patterns(self) ==
    [self EXCEPT !.naming_patterns = BucketFrom(self.files_data, 1, @)]

\* the value None
None == <<>>

\* _extract_project_identifier
_extract_project_identifier(filename) ==
    LET n == RunLen(filename, 1, AlphaClass)
        u == RunLen(filename, 1, UpperClass)
        years == {i \in 1..(Len(filename) - 3) :
                    /\ filename[i] = "2" /\ filename[i + 1] = "0"
                    /\ IsDigit(filename[i + 2]) /\ IsDigit(filename[i + 3])}
    IN  IF n >= 3 THEN [k \in 1..n |-> ToUpper(filename[k])]
        ELSE IF \E m \in 2..4 : m <= u /\ m + 1 <= Len(filename)
                                /\ IsDashOrUnderscore(filename[m + 1])
        THEN SubSeq(filename, 1,
                    CHOOSE m \in 2..4 :
                        /\ m <= u /\ m + 1 <= Len(filename)
                        /\ IsDashOrUnderscore(filename[m + 1])
                        /\ \A m2 \in (m + 1)..4 :
                              ~(m2 <= u /\ m2 + 1 <= Len(filename)
                                /\ IsDashOrUnderscore(filename[m2 + 1])))
        ELSE IF years # {}
        THEN <<"Y","E","A","R","_">> \o SubSeq(filename, Search(years), Search(years) + 3)
        ELSE None

RECURSIVE ProjectGroupsFrom(_, _, _)
ProjectGroupsFrom(files_data, i, groups) ==
    IF i > Len(files_data) THEN groups
    ELSE LET project_id == _extract_project_identifier(files_data[i].filename)
         IN  ProjectGroupsFrom(files_data, i + 1,
                               IF project_id # None
                               THEN AppendTo(groups, project_id, files_data[i])
                               ELSE groups)

\* [f for f in files if f['extension'] in extensions]
WithExtension(files, extensions) == SelectSeq(files, LAMBDA f : f.extension \in extensions)

Relationships(files) ==
    [ drawings       |-> WithExtension(files, {S_dwg}),
      specifications |-> WithExtension(files, {S_pdf}),
      boms           |-> WithExtension(files, {S_xlsx, S_xls}),
      total_files    |-> Len(files) ]

\* the second loop of _map_file_relationships over the groups
RelationshipsOf(groups, old) ==
    [pid \in DOMAIN groups \cup DOMAIN old |->
        IF pid \in DOMAIN groups THEN Relationships(groups[pid]) ELSE old[pid]]

_map_file_relationships(self) ==
    [self EXCEPT !.file_relationships =
        RelationshipsOf(ProjectGroupsFrom(self.files_data, 1, EmptyDict), @)]

\* length matched at i by [vV]?\d+|[rR]ev?\d+|final|FINAL|actualfinal
\* under re.IGNORECASE (0: no match at i)
BaseTokenLen(s, i) ==
    IF CharAtI(s, i, "v") /\ DigitAt(s, i + 1) THEN 1 + RunLen(s, i + 1, DigitClass)
    ELSE IF DigitAt(s, i) THEN RunLen(s, i, DigitClass)
    ELSE IF CharAtI(s, i, "r") /\ CharAtI(s, i + 1, "e") /\ DigitAt(s, i + 2)
    THEN 2 + RunLen(s, i + 2, DigitClass)
    ELSE IF CharAtI(s, i, "r") /\ CharAtI(s, i + 1, "e") /\ CharAtI(s, i + 2, "v")
            /\ DigitAt(s, i + 3)
    THEN 3 + RunLen(s, i + 3, DigitClass)
    ELSE IF MatchAtI(s, i, W_final) THEN 5
    ELSE IF MatchAtI(s, i, W_actualfinal) THEN 11
    ELSE 0

RECURSIVE RemoveBaseTokens(_, _)
RemoveBaseTokens(s, i) ==
    IF i > Len(s) THEN <<>>
    ELSE IF BaseTokenLen(s, i) > 0 THEN RemoveBaseTokens(s, i + BaseTokenLen(s, i))
    ELSE <<s[i]>> \o RemoveBaseTokens(s, i + 1)

\* base_name of _detect_version_conflicts
BaseName(filename) ==
    StripUnderscore(CollapseSeparators(RemoveBaseTokens(filename, 1), 1))

BaseIndex(groups, base_name) ==
    IF \E g \in DOMAIN groups : groups[g].base_name = base_name
    THEN CHOOSE g \in DOMAIN groups : groups[g].base_name = base_name
    ELSE 0

\* the groups after base_names[base_name].append(file_info)
AddToBase(groups, idx, base_name, file_info) ==
    IF idx = 0 THEN Append(groups, [base_name |-> base_name, files |-> <<file_info>>])
    ELSE [groups EXCEPT ![idx].files = Append(@, file_info)]

\* base_names: the groups in insertion order
RECURSIVE BaseNamesFrom(_, _, _)
BaseNamesFrom(files_data, i, groups) ==
    IF i > Len(files_data) THEN groups
    ELSE BaseNamesFrom(files_data, i + 1,
                       AddToBase(groups, BaseIndex(groups, BaseName(files_data[i].filename)),
                                 BaseName(files_data[i].filename), files_data[i]))

\* index of the first of the files with the latest modified_date
FirstLatest(files) ==
    CHOOSE i \in DOMAIN files :
        /\ \A j \in DOMAIN files : files[j].modified_date <= files[i].modified_date
        /\ \A j \in 1..(i - 1) : files[j].modified_date < files[i].modified_date

Without(files, i) == SubSeq(files, 1, i - 1) \o SubSeq(files, i + 1, Len(files))

\* mutant of SortedByDateDesc: the files in catalog order
SortedByDateDesc_Unsorted(files) == files

\* sorted(files, key=lambda x: x['modified_date'], reverse=True): stable
RECURSIVE SortedByDateDesc(_)
SortedByDateDesc(files) ==
    IF files = <<>> THEN <<>>
    ELSE <<files[FirstLatest(files)]>> \o SortedByDateDesc(Without(files, FirstLatest(files)))

ConflictSet(base_name, files_sorted) ==
    [ base_name      |-> base_name,
      files          |-> files_sorted,
      conflict_count |-> Len(files_sorted),
      latest_file    |-> files_sorted[1].filename,
      oldest_file    |-> files_sorted[Len(files_sorted)].filename ]

RECURSIVE ConflictsFrom(_, _)
ConflictsFrom(groups, g) ==
    IF g > Len(groups) THEN <<>>
    ELSE (IF Len(groups[g].files) > 1
          THEN <<ConflictSet(groups[g].base_name, SortedByDateDesc(groups[g].files))>>
          ELSE <<>>)
         \o ConflictsFrom(groups, g + 1)

_detect_version_conflicts(self) ==
    [self EXCEPT !.version_conflicts =
        @ \o ConflictsFrom(BaseNamesFrom(self.files_data, 1, <<>>), 1)]

\* misc_keywords
MiscKeywords ==
    { <<"m","i","s","c">>, <<"t","e","m","p">>, <<"o","l","d">>,
      <<"b","a","c","k","u","p">>, <<"a","r","c","h","i","v","e">>,
      <<"d","e","l","e","t","e">> }

\* any(keyword in folder_path for keyword in misc_keywords)
InMiscFolder(file_info) ==
    \E keyword \in MiscKeywords : Contains(Lower(JoinPath(file_info.relative_path)), keyword)

\* mutant of IsOrphan: a file without project id is an orphan in the root too
IsOrphan_AnyDepth(file_info) ==
    \/ InMiscFolder(file_info)
    \/ _extract_project_identifier(file_info.filename) = None

\* the test of _identify_orphaned_files on one file
IsOrphan(file_info) ==
    \/ InMiscFolder(file_info)
    \/ (/\ _extract_project_identifier(file_info.filename) = None
        /\ file_info.folder_depth > 0)

_identify_orphaned_files(self) ==
    [self EXCEPT !.orphaned_files = @ \o SelectSeq(self.files_data, IsOrphan)]

RECURSIVE SumBytes(_)
SumBytes(files) ==
    IF files = <<>> THEN 0 ELSE Head(files).size_bytes + SumBytes(Tail(files))

\* _generate_recommendations: the categories with the count each reports
_generate_recommendations(self) ==
    LET pattern_count == Cardinality({p \in DOMAIN self.naming_patterns :
                                        self.naming_patterns[p] # <<>>})
    IN  (IF self.version_conflicts # <<>>
         THEN << [priority |-> "HIGH", category |-> "Version Control",
                  count |-> Len(self.version_conflicts)] >>
         ELSE <<>>)
        \o (IF pattern_count > 3
            THEN << [priority |-> "MEDIUM", category |-> "Standardization",
                     count |-> pattern_count] >>
            ELSE <<>>)
        \o (IF self.orphaned_files # <<>>
            THEN << [priority |-> "MEDIUM", category |-> "Organization",
                     count |-> Len(self.orphaned_files)] >>
            ELSE <<>>)

\* Counter(f['extension'] for f in files_data)
ExtensionCounts(files_data) ==
    [e \in {files_data[i].extension : i \in DOMAIN files_data} |->
        Cardinality({i \in DOMAIN files_data : files_data[i].extension = e})]

\* the report of _generate_analysis_report over a non-empty catalog;
\* total_size_mb is in hundredths of a megabyte and the span of the dates
\* in days
AnalysisReport(self) ==
    LET dates == {self.files_data[i].modified_date : i \in DOMAIN self.files_data}
        earliest == CHOOSE d \in dates : \A d2 \in dates : d <= d2
        latest == CHOOSE d \in dates : \A d2 \in dates : d2 <= d
    IN  [ summary |->
            [ total_files       |-> Len(self.files_data),
              total_size_mb     |-> RoundDiv(100 * SumBytes(self.files_data), BytesPerMB),
              unique_projects   |-> Cardinality(DOMAIN self.file_relationships),
              version_conflicts |-> Len(self.version_conflicts),
              orphaned_files    |-> Len(self.orphaned_files),
              date_range        |-> [ earliest |-> earliest, latest |-> latest,
                                      span_days |-> latest - earliest ] ],
          file_types      |-> ExtensionCounts(self.files_data),
          naming_patterns |-> [name \in DOMAIN self.naming_patterns |->
                                  Len(self.naming_patterns[name])],
          project_breakdown |->
              [pid \in DOMAIN self.file_relationships |->
                  [ total_files    |-> self.file_relationships[pid].total_files,
                    drawings       |-> Len(self.file_relationships[pid].drawings),
                    specifications |-> Len(self.file_relationships[pid].specifications),
                    boms           |-> Len(self.file_relationships[pid].boms) ]],
          issues |->
              [ version_conflicts  |-> Len(self.version_conflicts),
                orphaned_files     |-> Len(self.orphaned_files),
                unclassified_files |-> Len(Get(self.naming_patterns, "unclassified", <<>>)) ],
          recommendations |-> _generate_recommendations(self) ]

\* _generate_analysis_report.  Returns [raised, report]: min(dates) of an
\* empty catalog raises ValueError
_generate_analysis_report(self) ==
    IF self.files_data = <<>>
    THEN [raised |-> "ValueError", report |-> <<>>]
    ELSE [raised |-> "none", report |-> <<AnalysisReport(self)>>]

\* the five phases of analyze_archive before the report
AnalysisPhases(self, w) ==
    _identify_orphaned_files(
        _detect_version_conflicts(
            _map_file_relationships(
                _identify_naming_patterns(
                    _discover_files(self, w)))))

\* ArchiveAnalyzer.__init__
NewAnalyzer ==
    [ files_data         |-> <<>>,
      naming_patterns    |-> EmptyDict,
      file_relationships |-> EmptyDict,
      version_conflicts  |-> <<>>,
      orphaned_files     |-> <<>>,
      calls              |-> 0,        \* history: calls of analyze_archive
      outcome            |-> "none",   \* how the last call ended
      report             |-> <<>> ]    \* <<>> or <<the report returned>>

\* the end of analyze_archive: the report of the catalog built
ReportOn(self) ==
    [self EXCEPT !.calls = @ + 1,
                 !.outcome = IF _generate_analysis_report(self).raised = "none"
                             THEN "returned" ELSE _generate_analysis_report(self).raised,
                 !.report = _generate_analysis_report(self).report]

\* analyze_archive, given the order in which os.walk lists the files
analyze_archive(self, w) == ReportOn(AnalysisPhases(self, w))


(***************************************************************************)
(* State.                                                                  *)
(***************************************************************************)
VARIABLES
    source_tree,          \* the files below source_path
    transformation_rules, \* self.transformation_rules
    transformation_log,   \* self.transformation_log
    project_counter,      \* self.project_counter
    project_mappings,     \* self.project_mappings
    target_dirs,          \* directories below target_path
    target_files,         \* files below target_path
    attempts,             \* history: the _transform_file invocations
    now,                  \* the clock
    projects,             \* the caller's result of _discover_projects
    discovered,           \* whether _discover_projects has been called
    walk,                 \* history: the order in which os.walk listed the files
    next_project,         \* index of the next group the caller passes on
    last_call,            \* the most recent call on the transformer and how it ended
    report,               \* <<>> or <<the report returned>>
    prev,                 \* history: summaries of the earlier runs
    run,                  \* number of the current run (transformer)
    source_exists,        \* whether the source (root) path exists
    analyzer,             \* the ArchiveAnalyzer object
    pure                  \* a function under test: its input and its result

vars ==
    << source_tree, transformation_rules, transformation_log, project_counter,
       project_mappings, target_dirs, target_files, attempts, now, projects,
       discovered, walk, next_project, last_call, report, prev, run,
       source_exists, analyzer, pure >>

Self ==
    [ transformation_log |-> transformation_log,
      project_counter    |-> project_counter,
      project_mappings   |-> project_mappings,
      target_dirs        |-> target_dirs,
      target_files       |-> target_files,
      attempts           |-> attempts,
      source_tree        |-> source_tree,
      now                |-> now ]

Assign(self) ==
    /\ transformation_log' = self.transformation_log
    /\ project_counter' = self.project_counter
    /\ project_mappings' = self.project_mappings
    /\ target_dirs' = self.target_dirs
    /\ target_files' = self.target_files
    /\ attempts' = self.attempts
    /\ source_tree' = self.source_tree
    /\ now' = self.now

Call(op, raised) == [op |-> op, outcome |-> IF raised = "none" THEN "returned" ELSE raised]

NoCall == [op |-> "none", outcome |-> "none"]

\* the call op has ended with r = [self, raised]
Return(op, r) ==
    /\ Assign(r.self)
    /\ last_call' = Call(op, r.raised)

\* the call op has ended with r = [self, raised, report]
ReturnReport(op, r) ==
    /\ Assign(r.self)
    /\ report' = r.report
    /\ last_call' = Call(op, r.raised)

\* no function is under test
NoPure == [fn |-> "none", input |-> <<>>, output |-> <<>>]

\* ArchiveTransformer.__init__ on a fresh target
FreshTransformer ==
    /\ transformation_log = <<>>
    /\ project_counter = 1
    /\ project_mappings = EmptyDict
    /\ target_dirs = {}
    /\ target_files = {}
    /\ attempts = <<>>
    /\ now = 0
    /\ projects = <<>>
    /\ discovered = FALSE
    /\ walk = <<>>
    /\ next_project = 1
    /\ last_call = NoCall
    /\ report = <<>>
    /\ prev = <<>>
    /\ run = 1

\* a transformer over a source path that exists, with a tree below it, or
\* does not exist
Init ==
    /\ source_exists \in BOOLEAN
    /\ source_tree \in (IF source_exists THEN SourceTrees ELSE {{}})
    /\ transformation_rules \in RuleSets
    /\ FreshTransformer
    /\ analyzer = NewAnalyzer
    /\ pure = NoPure

SourcePaths(files) == {Append(f.folder, f.filename) : f \in files}

(***************************************************************************)
(* Operations.  transform_archive is one call; the other actions are the   *)
(* calls a caller makes on the phases of the pipeline one by one, as       *)
(* scripts/debug_test.py does: discovery, target skeleton, the groups in   *)
(* the order of the discovery, report.                                     *)
(***************************************************************************)

\* mutant of AfterDiscovery: the discovery creates the target directory
AfterDiscovery_CreatesTarget(self) == [self EXCEPT !.target_dirs = @ \cup {<<>>}]

\* the transformer and the two file systems after _discover_projects: it
\* reads the source tree with os.walk and stat, fills the local dict
\* "projects" and assigns no attribute of self
AfterDiscovery(self) == self

\* projects = transformer._discover_projects()
DiscoverProjects ==
    /\ last_call.op = "none"
    /\ \E w \in Walks(source_tree) :
         /\ projects' = _discover_projects(w)
         /\ walk' = w
    /\ discovered' = TRUE
    /\ next_project' = 1
    /\ last_call' = Call("_discover_projects", "none")
    /\ Assign(AfterDiscovery(Self))
    /\ UNCHANGED << source_exists, analyzer, pure, transformation_rules, report, prev, run >>

\* transformer._create_target_structure()
CreateTargetStructure ==
    /\ last_call.op = "_discover_projects"
    /\ Assign(_create_target_structure(Self))
    /\ last_call' = Call("_create_target_structure", "none")
    /\ UNCHANGED << source_exists, analyzer, pure, transformation_rules, projects, discovered, walk,
                    next_project, report, prev, run >>

\* transformer._transform_project(projects[key]) for the next group
TransformProject ==
    /\ last_call.op \in {"_create_target_structure", "_transform_project"}
    /\ next_project <= Len(projects)
    /\ \E copy_fails \in SUBSET Range([i \in DOMAIN projects[next_project].files |->
                                        projects[next_project].files[i].source_path]) :
         Return("_transform_project",
                _transform_project(Self, DictArg(projects[next_project]),
                                   transformation_rules, copy_fails))
    /\ next_project' = next_project + 1
    /\ UNCHANGED << source_exists, analyzer, pure, transformation_rules, projects, discovered, walk,
                    report, prev, run >>

\* transformer._generate_transformation_report()
GenerateReport ==
    /\ last_call.op \in {"_create_target_structure", "_transform_project"}
    /\ next_project > Len(projects)
    /\ ReturnReport("_generate_transformation_report",
                    _generate_transformation_report(Self, transformation_rules))
    /\ UNCHANGED << source_exists, analyzer, pure, transformation_rules, projects, discovered, walk,
                    next_project, prev, run >>

\* transformer.transform_archive() on a new transformer
TransformArchive ==
    /\ last_call.op = "none"
    /\ \E w \in Walks(source_tree), copy_fails \in SUBSET SourcePaths(source_tree) :
         /\ projects' = _discover_projects(w)
         /\ walk' = w
         /\ ReturnReport("transform_archive",
                         transform_archive(Self, _discover_projects(w),
                                           transformation_rules, copy_fails))
    /\ discovered' = TRUE
    /\ UNCHANGED << source_exists, analyzer, pure, transformation_rules, next_project, prev, run >>

\* new_filename per source path, from the SUCCESS entries of the log
GeneratedFilenames(log) ==
    [ p \in {log[i].source_path : i \in {j \in DOMAIN log : log[j].status = "SUCCESS"}} |->
        log[CHOOSE i \in DOMAIN log :
              /\ log[i].status = "SUCCESS" /\ log[i].source_path = p
              /\ \A j \in DOMAIN log :
                   (log[j].status = "SUCCESS" /\ log[j].source_path = p) => j <= i].new_filename ]

RunSummary ==
    [ walk             |-> walk,
      projects         |-> projects,
      project_mappings |-> project_mappings,
      filenames        |-> GeneratedFilenames(transformation_log),
      op               |-> last_call.op,
      outcome          |-> last_call.outcome ]

\* a run has ended: transform_archive has, or the caller of the phases has
\* come to the end of the report
RunEnded == last_call.op \in {"transform_archive", "_generate_transformation_report"}

\* a second run: ArchiveTransformer(source, fresh target, rules) after a
\* run has ended
NewTransformer ==
    /\ run < MaxRuns
    /\ RunEnded
    /\ prev' = Append(prev, RunSummary)
    /\ run' = run + 1
    /\ transformation_log' = <<>>
    /\ project_counter' = 1
    /\ project_mappings' = EmptyDict
    /\ target_dirs' = {}
    /\ target_files' = {}
    /\ attempts' = <<>>
    /\ projects' = <<>>
    /\ discovered' = FALSE
    /\ walk' = <<>>
    /\ next_project' = 1
    /\ last_call' = NoCall
    /\ report' = <<>>
    /\ UNCHANGED << source_exists, analyzer, pure, source_tree, transformation_rules, now >>

Next ==
    \/ DiscoverProjects
    \/ CreateTargetStructure
    \/ TransformProject
    \/ GenerateReport
    \/ TransformArchive

Spec == Init /\ [][Next]_vars

NextTwoRuns ==
    \/ DiscoverProjects
    \/ CreateTargetStructure
    \/ TransformProject
    \/ GenerateReport
    \/ TransformArchive
    \/ NewTransformer

\* report = analyzer.analyze_archive()
AnalyzeArchive ==
    /\ analyzer.calls < MaxAnalyses
    /\ \E w \in Walks(source_tree) : analyzer' = analyze_archive(analyzer, w)
    /\ UNCHANGED << source_exists, pure, source_tree, transformation_rules,
                    transformation_log, project_counter, project_mappings, target_dirs,
                    target_files, attempts, now, projects, discovered, walk,
                    next_project, last_call, report, prev, run >>

\* an analyzer over a root path that exists, with a tree below it, or does
\* not exist
InitAnalyzer ==
    /\ source_exists \in BOOLEAN
    /\ source_tree \in (IF source_exists THEN AnalyzerTrees ELSE {{}})
    /\ transformation_rules = DefaultRules
    /\ FreshTransformer
    /\ analyzer = NewAnalyzer
    /\ pure = NoPure

NextAnalyzer == AnalyzeArchive

\* a transformer constructed with a custom rule set that omits options
InitRules ==
    /\ source_exists = TRUE
    /\ source_tree \in {t \in SourceTrees : Cardinality(t) <= MaxFilesRules}
    /\ transformation_rules \in PartialRuleSets
    /\ FreshTransformer
    /\ analyzer = NewAnalyzer
    /\ pure = NoPure

SpecRules == InitRules /\ [][Next]_vars

(***************************************************************************)
(* _extract_revision as a function of the filename alone.                  *)
(***************************************************************************)

\* the stems, revision tokens and extensions the filenames are built from
RevisionStems == { <<"p","a","r","t">>, <<"G","A","-","7">>, <<"l","i","d"," ","B">> }

RevisionTokens ==
    { <<>>, <<"_","r","e","v","0">>, <<"_","r","e","v","3">>, <<"_","R","e","v"," ","1","2">>,
      <<"-","R","7">>, <<"_","v","0">>, <<" ","V","2">>, <<"_","R","e","v","B">>,
      <<" ","R","e","v"," ","A">>, <<"_","R","e","v","Z">>, <<"_","0">>, <<"_","0","0","7">>,
      <<"_","r","0","0">>, <<"_","f","i","n","a","l">> }

RevisionExtensions == { S_dwg, S_pdf }

RevisionFilenames ==
    {stem \o token \o extension :
        stem \in RevisionStems, token \in RevisionTokens, extension \in RevisionExtensions}

InitRevision ==
    /\ source_exists = TRUE
    /\ source_tree = {}
    /\ transformation_rules = DefaultRules
    /\ FreshTransformer
    /\ analyzer = NewAnalyzer
    /\ pure \in {[fn |-> "none", input |-> filename, output |-> <<>>] :
                    filename \in RevisionFilenames}

\* revision = self._extract_revision(original_filename)
ExtractRevision ==
    /\ pure.fn = "none"
    /\ pure' = [fn |-> "_extract_revision", input |-> pure.input,
                output |-> _extract_revision(pure.input)]
    /\ UNCHANGED << source_exists, analyzer, source_tree, transformation_rules,
                    transformation_log, project_counter, project_mappings, target_dirs,
                    target_files, attempts, now, projects, discovered, walk,
                    next_project, last_call, report, prev, run >>

NextRevision == ExtractRevision

SpecRevision == InitRevision /\ [][NextRevision]_vars

(***************************************************************************)
(* _determine_type_code (with _extract_revision) as a function of the      *)
(* filename alone.                                                         *)
(***************************************************************************)

\* the parts the filenames are built from
TypeCodePrefixes == { <<"B","e","t","a","_">>, <<"x">> }

TypeCodeWords ==
    { <<"A","s","s","e","m","b","l","y">>, <<"a","s","m">>, <<"M","A","I","N">>,
      <<"S","p","e","c">>, <<"r","e","q","u","i","r","e","m","e","n","t">>,
      <<"S","t","a","n","d","a","r","d">>, <<"B","O","M">>, <<"b","i","l","l">>,
      <<"M","a","t","e","r","i","a","l">>, <<"l","i","d">> }

TypeCodeRevisions == { <<"_","R","1">>, <<>> }

TypeCodeExtensions ==
    { S_dwg, S_pdf, S_xlsx, S_xls, <<".","t","x","t">>, <<".","D","W","G">> }

TypeCodeFilenames ==
    {prefix \o word \o revision \o extension :
        prefix \in TypeCodePrefixes, word \in TypeCodeWords,
        revision \in TypeCodeRevisions, extension \in TypeCodeExtensions}

InitTypeCode ==
    /\ source_exists = TRUE
    /\ source_tree = {}
    /\ transformation_rules = DefaultRules
    /\ FreshTransformer
    /\ analyzer = NewAnalyzer
    /\ pure \in {[fn |-> "none", input |-> filename, output |-> <<>>] :
                    filename \in TypeCodeFilenames}

\* type_code = self._determine_type_code(original_filename, extension) and
\* revision = self._extract_revision(original_filename), with the extension
\* of the discovery (file_path.suffix.lower())
DetermineTypeCode ==
    /\ pure.fn = "none"
    /\ pure' = [fn |-> "_determine_type_code", input |-> pure.input,
                output |-> [ type_code |-> _determine_type_code(pure.input,
                                                                Extension(pure.input)),
                             revision  |-> _extract_revision(pure.input) ]]
    /\ UNCHANGED << source_exists, analyzer, source_tree, transformation_rules,
                    transformation_log, project_counter, project_mappings, target_dirs,
                    target_files, attempts, now, projects, discovered, walk,
                    next_project, last_call, report, prev, run >>

NextTypeCode == DetermineTypeCode

SpecTypeCode == InitTypeCode /\ [][NextTypeCode]_vars

(***************************************************************************)
(* _identify_project_from_path as a function of the folder path alone.     *)
(***************************************************************************)

\* the segments the folder paths are built from
PathSegments ==
    { <<"P","r","o","j","e","c","t","A","l","p","h","a">>,
      <<"p","r","o","j","e","c","t","_","b","e","t","a">>,
      <<"2","0","2","0">>, <<"2","0","2","3">>,
      <<"G","a","m","m","a">>, <<"G","A","M","-","0","1">>,
      <<"m","y"," ","d","o","c","s">>, <<".","g","i","t">> }

\* largest number of segments of a folder path
MaxPathDepth == 2

FolderPaths == UNION {[1..n -> PathSegments] : n \in 0..MaxPathDepth}

InitProjectPath ==
    /\ source_exists = TRUE
    /\ source_tree = {}
    /\ transformation_rules = DefaultRules
    /\ FreshTransformer
    /\ analyzer = NewAnalyzer
    /\ pure \in {[fn |-> "none", input |-> relative_path, output |-> <<>>] :
                    relative_path \in FolderPaths}

\* project_id = self._identify_project_from_path(relative_path)
IdentifyProject ==
    /\ pure.fn = "none"
    /\ pure' = [fn |-> "_identify_project_from_path", input |-> pure.input,
                output |-> _identify_project_from_path(pure.input)]
    /\ UNCHANGED << source_exists, analyzer, source_tree, transformation_rules,
                    transformation_log, project_counter, project_mappings, target_dirs,
                    target_files, attempts, now, projects, discovered, walk,
                    next_project, last_call, report, prev, run >>

NextProjectPath == IdentifyProject

SpecProjectPath == InitProjectPath /\ [][NextProjectPath]_vars

SpecAnalyzer == InitAnalyzer /\ [][NextAnalyzer]_vars

\* report = analyzer.analyze_archive(), called again and again on one
\* analyzer over an unchanged tree
AnalyzeRepeatedly ==
    /\ analyzer.calls < MaxRepeatedAnalyses
    /\ \E w \in Walks(source_tree) : analyzer' = analyze_archive(analyzer, w)
    /\ UNCHANGED << source_exists, pure, source_tree, transformation_rules,
                    transformation_log, project_counter, project_mappings, target_dirs,
                    target_files, attempts, now, projects, discovered, walk,
                    next_project, last_call, report, prev, run >>

InitRepeated ==
    /\ InitAnalyzer
    /\ Cardinality(source_tree) <= MaxFilesRepeated

NextRepeated == AnalyzeRepeatedly

SpecRepeated == InitRepeated /\ [][NextRepeated]_vars

\* the trees of the two-run specification
InitTwoRuns ==
    /\ Init
    /\ Cardinality(source_tree) <= MaxFilesTwoRuns

SpecTwoRuns == InitTwoRuns /\ [][NextTwoRuns]_vars

\* a further run on the same transformer after a run has ended:
\* transform_archive, or its phases, invoked again.  Nothing of the
\* transformer is reset; the caller starts over with the discovery.
RunAgain ==
    /\ run < MaxRuns
    /\ RunEnded
    /\ prev' = Append(prev, RunSummary)
    /\ run' = run + 1
    /\ projects' = <<>>
    /\ discovered' = FALSE
    /\ walk' = <<>>
    /\ next_project' = 1
    /\ last_call' = NoCall
    /\ report' = <<>>
    /\ UNCHANGED << source_exists, analyzer, pure, source_tree, transformation_rules,
                    transformation_log, project_counter, project_mappings, target_dirs,
                    target_files, attempts, now >>

NextSameTransformer ==
    \/ DiscoverProjects
    \/ CreateTargetStructure
    \/ TransformProject
    \/ GenerateReport
    \/ TransformArchive
    \/ RunAgain

SpecSameTransformer == InitTwoRuns /\ [][NextSameTransformer]_vars

(***************************************************************************)
(* Vocabulary of the properties.                                           *)
(***************************************************************************)

\* the files in the order in which transform_archive is to process them:
\* group by group in discovery order, the files of a group in walk order
RECURSIVE ProcessingOrderFrom(_, _)
ProcessingOrderFrom(projs, g) ==
    IF g > Len(projs) THEN <<>>
    ELSE [i \in DOMAIN projs[g].files |-> projs[g].files[i].source_path]
         \o ProcessingOrderFrom(projs, g + 1)

ProcessingOrder == ProcessingOrderFrom(projects, 1)

DiscoveredKeys == {projects[g].original_name : g \in DOMAIN projects}

\* the call of transform_archive has ended
ArchiveRunEnded == last_call.op = "transform_archive"

\* the caller has passed every discovered group to _transform_project
AllGroupsPassed ==
    /\ last_call.op \in {"_create_target_structure", "_transform_project",
                         "_generate_transformation_report"}
    /\ next_project > Len(projects)

EntriesOf(path) == {i \in DOMAIN transformation_log : transformation_log[i].source_path = path}

FailedEntriesOf(path) == {i \in EntriesOf(path) : transformation_log[i].status = "FAILED"}

(***************************************************************************)
(* C1.  A copy failure is isolated: the file whose copy failed has exactly *)
(* one FAILED entry, carrying the error detail, and every file after it in *)
(* the processing order (same project and later projects) still gets its   *)
(* attempt recorded once all groups have been passed on.                   *)
(***************************************************************************)
C1_CopyFailureIsolated ==
    (ArchiveRunEnded \/ AllGroupsPassed) =>
        \A i \in DOMAIN ProcessingOrder :
            FailedEntriesOf(ProcessingOrder[i]) # {} =>
                /\ Cardinality(FailedEntriesOf(ProcessingOrder[i])) = 1
                /\ \A e \in FailedEntriesOf(ProcessingOrder[i]) :
                       "error" \in DOMAIN transformation_log[e]
                /\ \A j \in DOMAIN ProcessingOrder :
                       j > i => EntriesOf(ProcessingOrder[j]) # {}

(***************************************************************************)
(* C2.  Neither transform_archive nor _transform_project (called on a      *)
(* discovered group after the target skeleton exists) raises: every such   *)
(* call returns.                                                           *)
(***************************************************************************)
C2_NeverRaises ==
    last_call.op \in {"transform_archive", "_transform_project"} =>
        last_call.outcome = "returned"

(***************************************************************************)
(* C3.  When transform_archive has ended, the log holds exactly one entry  *)
(* for each file found by discovery.                                       *)
(***************************************************************************)
C3_OneEntryPerFile ==
    ArchiveRunEnded =>
        \A p \in SourcePaths(source_tree) : Cardinality(EntriesOf(p)) = 1

(***************************************************************************)
(* C4.  After a transform_archive run the k-th project group discovered    *)
(* has the id project_prefix followed by k zero-padded to project_digits.  *)
(***************************************************************************)
C4_IdsFollowDiscoveryOrder ==
    ArchiveRunEnded =>
        \A k \in DOMAIN projects :
            /\ projects[k].original_name \in DOMAIN project_mappings
            /\ project_mappings[projects[k].original_name].new_id
                 = transformation_rules.project_prefix
                     \o ZeroPad(k, transformation_rules.project_digits)

(***************************************************************************)
(* C5.  When transform_archive has ended, the project_mappings table of    *)
(* its report holds one entry for every discovered project group, from the *)
(* original key to the new id and folder name.                             *)
(***************************************************************************)
C5_MappingPerProject ==
    ArchiveRunEnded =>
        /\ report # <<>>
        /\ DOMAIN report[1].project_mappings = DiscoveredKeys
        /\ \A key \in DiscoveredKeys :
               /\ report[1].project_mappings[key].original_name = key
               /\ {"new_id", "folder_name"} \subseteq DOMAIN report[1].project_mappings[key]

(***************************************************************************)
(* C6.  Two runs of the same kind with fresh transformers over the same    *)
(* tree, the same rules and the same traversal order assign the same id    *)
(* and folder name to every project and generate the same filename for     *)
(* every source file that both runs gave a filename.                       *)
(***************************************************************************)
C6_RunsAgree ==
    (prev # <<>> /\ RunEnded /\ last_call.op = prev[1].op /\ walk = prev[1].walk) =>
        /\ project_mappings = prev[1].project_mappings
        /\ \A p \in DOMAIN GeneratedFilenames(transformation_log) \cap DOMAIN prev[1].filenames :
               GeneratedFilenames(transformation_log)[p] = prev[1].filenames[p]

(***************************************************************************)
(* C7.  The order in which discovery enumerates the files depends on the   *)
(* tree only: a later run over the same tree enumerates them in the order  *)
(* of the earlier run.                                                     *)
(***************************************************************************)
C7_TraversalOrderFixed ==
    (prev # <<>> /\ discovered) =>
        /\ walk = prev[1].walk
        /\ projects = prev[1].projects

\* the project key of an attempt
AttemptKey(a) == _identify_project_from_path(SubSeq(a.source_path, 1, Len(a.source_path) - 1))

(***************************************************************************)
(* C8.  Sequence numbers are scoped per (project, type code): the first    *)
(* file of a type code processed in a project is given sequence number 1,  *)
(* for each of the seven type codes.                                       *)
(***************************************************************************)
C8_FirstOfTypeGetsOne ==
    \A i \in DOMAIN attempts :
        (\A j \in 1..(i - 1) :
            ~(/\ AttemptKey(attempts[j]) = AttemptKey(attempts[i])
              /\ attempts[j].type_code = attempts[i].type_code))
        => attempts[i].outcome # "KeyError" /\ attempts[i].sequence = 1

SuccessCount(log) == Cardinality({i \in DOMAIN log : log[i].status = "SUCCESS"})

(***************************************************************************)
(* C9.  In a report, success_rate is 100 * successful / total rounded to   *)
(* two decimals when the log has entries and 0 when it is empty; when      *)
(* every file failed the rate is 0 too, but failed_transformations equals  *)
(* the total, which is positive, and the log holds the FAILED entries.     *)
(* (success_rate is in hundredths: it is within half a hundredth of the    *)
(* exact quotient.)                                                        *)
(***************************************************************************)
C9_SuccessRate ==
    report # <<>> =>
        LET summary == report[1].transformation_summary
            log     == report[1].detailed_log
            total   == Len(log)
            good    == SuccessCount(log)
            diff    == summary.success_rate * total - 10000 * good
        IN  /\ total > 0 => (2 * diff <= total /\ -2 * diff <= total)
            /\ total = 0 => summary.success_rate = 0
            /\ (total > 0 /\ good = 0) =>
                  /\ summary.success_rate = 0
                  /\ summary.failed_transformations = total
                  /\ \A i \in DOMAIN log : log[i].status = "FAILED"

\* a report over a log in which some copies succeeded and some failed
C9_Witness ==
    /\ report # <<>>
    /\ SuccessCount(report[1].detailed_log) > 0
    /\ SuccessCount(report[1].detailed_log) < Len(report[1].detailed_log)
    /\ report[1].transformation_summary.success_rate \notin {0, 10000}

Last(s) == s[Len(s)]

(***************************************************************************)
(* C10.  No generated filename contains one of < > : " / \ | ? * : this    *)
(* holds of the new_filename of every log entry and of the last component  *)
(* of every target path.                                                   *)
(***************************************************************************)
C10_NoReservedChars ==
    /\ \A i \in DOMAIN transformation_log :
          "new_filename" \in DOMAIN transformation_log[i] =>
              /\ Range(transformation_log[i].new_filename) \cap ReservedChars = {}
              /\ Last(transformation_log[i].target_path) = transformation_log[i].new_filename
    /\ \A p \in target_files : Range(Last(p)) \cap ReservedChars = {}

\* a file was copied under a name that the template or the original name
\* would have given a reserved character
C10_Witness ==
    \E i \in DOMAIN transformation_log :
        /\ transformation_log[i].status = "SUCCESS"
        /\ \/ Range(transformation_rules.naming_convention) \cap ReservedChars # {}
           \/ Range(transformation_log[i].original_filename) \cap ReservedChars # {}
        /\ transformation_log[i].target_path \in target_files

(***************************************************************************)
(* Vocabulary of the properties of the analyzer.                           *)
(***************************************************************************)

\* analyze_archive has been called once on the analyzer, which was fresh
FreshAnalysisEnded == analyzer.calls = 1

\* the entries of the catalog that share the base identity of a filename
SameBase(base_name) ==
    {i \in DOMAIN analyzer.files_data :
        BaseName(analyzer.files_data[i].filename) = base_name}

\* the conflict sets of a base identity
ConflictSetsOf(base_name) ==
    {c \in DOMAIN analyzer.version_conflicts :
        analyzer.version_conflicts[c].base_name = base_name}

\* the members of a conflict set are the catalog entries of its base
\* identity, latest first, and latest_file names a latest member
WellFormedConflictSet(set) ==
    /\ Len(set.files) = Cardinality(SameBase(set.base_name))
    /\ Range(set.files) = {analyzer.files_data[i] : i \in SameBase(set.base_name)}
    /\ \A k \in 1..(Len(set.files) - 1) :
          set.files[k].modified_date >= set.files[k + 1].modified_date
    /\ \E k \in DOMAIN set.files :
          /\ set.files[k].filename = set.latest_file
          /\ \A j \in DOMAIN set.files :
                set.files[j].modified_date <= set.files[k].modified_date

(***************************************************************************)
(* C11.  After analyze_archive on a fresh analyzer every base identity     *)
(* shared by two or more cataloged files has exactly one version-conflict  *)
(* set, which holds all the files of that base identity and no others,     *)
(* sorted by modification time descending, with latest_file a member of    *)
(* maximum modification time; a base identity of a single file has no      *)
(* conflict set.                                                           *)
(***************************************************************************)
C11_ConflictSets ==
    FreshAnalysisEnded =>
        /\ \A i \in DOMAIN analyzer.files_data :
              LET base_name == BaseName(analyzer.files_data[i].filename)
              IN  IF Cardinality(SameBase(base_name)) >= 2
                  THEN /\ Cardinality(ConflictSetsOf(base_name)) = 1
                       /\ \A c \in ConflictSetsOf(base_name) :
                             WellFormedConflictSet(analyzer.version_conflicts[c])
                  ELSE ConflictSetsOf(base_name) = {}
        /\ \A c \in DOMAIN analyzer.version_conflicts :
              SameBase(analyzer.version_conflicts[c].base_name) # {}

\* a conflict set whose first file is strictly later than its second, beside
\* a file that is alone with its base identity
C11_Witness ==
    /\ FreshAnalysisEnded
    /\ \E c \in DOMAIN analyzer.version_conflicts :
          /\ Len(analyzer.version_conflicts[c].files) >= 2
          /\ analyzer.version_conflicts[c].files[1].modified_date
               > analyzer.version_conflicts[c].files[2].modified_date
    /\ \E i \in DOMAIN analyzer.files_data :
          Cardinality(SameBase(BaseName(analyzer.files_data[i].filename))) = 1

(***************************************************************************)
(* C12.  analyze_archive on an existing root that holds no file returns a  *)
(* report whose summary.total_files is 0 and raises no error.              *)
(***************************************************************************)
C12_EmptyRootReport ==
    (source_exists /\ source_tree = {} /\ FreshAnalysisEnded) =>
        /\ analyzer.outcome = "returned"
        /\ analyzer.report # <<>>
        /\ analyzer.report[1].summary.total_files = 0

\* the exceptions that report a missing root
RootNotFoundErrors == {"RootNotFoundError", "FileNotFoundError", "NotADirectoryError"}

(***************************************************************************)
(* C13.  analyze_archive and transform_archive on a root (source) path     *)
(* that does not exist fail with a root-not-found error before any work is *)
(* done: no catalog and no project group is built, no target directory is  *)
(* created and no report is written or returned.                           *)
(***************************************************************************)
C13_MissingRootFails ==
    ~source_exists =>
        /\ analyzer.calls >= 1 =>
              /\ analyzer.outcome \in RootNotFoundErrors
              /\ analyzer.report = <<>>
        /\ ArchiveRunEnded =>
              /\ last_call.outcome \in RootNotFoundErrors
              /\ target_dirs = {}
              /\ target_files = {}
              /\ report = <<>>


(***************************************************************************)
(* Vocabulary of the properties of the rule sets.                          *)
(***************************************************************************)

\* the rule set lacks a required key
Malformed(rules) == ~ (RequiredKeys \subseteq DOMAIN rules)

\* the rule set with every omitted option at its documented default
Complete(rules) ==
    [k \in DOMAIN DefaultRules |-> IF k \in DOMAIN rules THEN rules[k] ELSE DefaultRules[k]]

\* the caller has passed the first discovered group to _transform_project
FirstGroupPassed == last_call.op = "_transform_project" /\ next_project = 2

\* the project folder a rule set gives the first discovered group
FirstProjectBase(rules) ==
    <<N_Projects, ProjectFolderName(ProjectId(rules, 1), projects[1].original_name,
                                    projects[1].year)>>

(***************************************************************************)
(* C14.  A transformer given custom rules that lack a required key         *)
(* (project_prefix, project_digits, folder_structure, file_type_mapping,   *)
(* naming_convention) fails at startup with a malformed-configuration      *)
(* error: no call on it returns, no target directory is created and no     *)
(* file is copied or logged.                                               *)
(***************************************************************************)
C14_MalformedRulesRejected ==
    Malformed(transformation_rules) =>
        /\ last_call.outcome # "returned"
        /\ target_dirs = {}
        /\ target_files = {}
        /\ transformation_log = <<>>

(***************************************************************************)
(* C15.  Every option of the rules is optional: under a rule set that      *)
(* omits options the first project group processed gets the id and the     *)
(* folders that the same rule set with the documented defaults filled in   *)
(* gives it, and no KeyError is raised for the omitted option.             *)
(***************************************************************************)
C15_OmittedOptionsDefault ==
    (transformation_rules \in PartialRuleSets /\ FirstGroupPassed) =>
        /\ projects[1].original_name \in DOMAIN project_mappings
        /\ project_mappings[projects[1].original_name].new_id
             = ProjectId(Complete(transformation_rules), 1)
        /\ \A c \in DOMAIN Complete(transformation_rules).folder_structure :
              Append(FirstProjectBase(Complete(transformation_rules)),
                     Complete(transformation_rules).folder_structure[c]) \in target_dirs
        /\ last_call.outcome = "KeyError" =>
              /\ attempts # <<>>
              /\ Last(attempts).type_code \notin DOMAIN InitialFileCounters


(***************************************************************************)
(* C16.  transform_archive and the phases it is made of never modify,      *)
(* rename or delete anything under the source root: the source files, with *)
(* their contents (sizes) and modification times, are the same after every *)
(* step as before it, whether the copies succeed or fail.                  *)
(***************************************************************************)
C16_SourceUntouched == [][source_tree' = source_tree]_vars

\* a copy has succeeded and a copy has failed, and the files of both are
\* in the source tree
C16_Witness ==
    /\ \E i \in DOMAIN attempts : attempts[i].outcome = "SUCCESS"
    /\ \E i \in DOMAIN attempts : attempts[i].outcome = "FAILED"
    /\ \A i \in DOMAIN attempts : attempts[i].source_path \in SourcePaths(source_tree)


\* how often a value occurs in a list
Occurrences(list, value) == Cardinality({i \in DOMAIN list : list[i] = value})

BucketNames == Range(PatternNames) \cup {"unclassified"}

\* the number of files in the given buckets together
RECURSIVE FilesIn(_, _)
FilesIn(buckets, names) ==
    IF names = {} THEN 0
    ELSE LET name == CHOOSE n \in names : TRUE
         IN  Len(buckets[name]) + FilesIn(buckets, names \ {name})

\* name is the bucket the claim gives the filename: the first pattern, in
\* the order of the patterns, that the filename matches, or 'unclassified'
IsBucketOf(name, filename) ==
    \/ \E k \in DOMAIN PatternNames :
          /\ name = PatternNames[k]
          /\ MatchesPattern(name, filename)
          /\ \A j \in 1..(k - 1) : ~MatchesPattern(PatternNames[j], filename)
    \/ /\ name = "unclassified"
       /\ \A k \in DOMAIN PatternNames : ~MatchesPattern(PatternNames[k], filename)

(***************************************************************************)
(* C18.  After analyze_archive on a fresh analyzer every cataloged file is *)
(* in exactly one naming-pattern bucket, once: the bucket of the first     *)
(* pattern it matches in the order descriptive-with-version,               *)
(* project-code-sequential, structured-code, date-based,                   *)
(* revision-controlled, final-versions, or 'unclassified' when it matches  *)
(* none; the bucket sizes sum to summary.total_files.                      *)
(***************************************************************************)
C18_OneBucketPerFile ==
    FreshAnalysisEnded =>
        /\ DOMAIN analyzer.naming_patterns \subseteq BucketNames
        /\ \A i \in DOMAIN analyzer.files_data :
              \E name \in DOMAIN analyzer.naming_patterns :
                  /\ IsBucketOf(name, analyzer.files_data[i].filename)
                  /\ Occurrences(analyzer.naming_patterns[name], analyzer.files_data[i]) = 1
                  /\ \A other \in DOMAIN analyzer.naming_patterns \ {name} :
                        Occurrences(analyzer.naming_patterns[other], analyzer.files_data[i]) = 0
        /\ FilesIn(analyzer.naming_patterns, DOMAIN analyzer.naming_patterns)
             = Len(analyzer.files_data)
        /\ analyzer.report # <<>> =>
              /\ analyzer.report[1].summary.total_files = Len(analyzer.files_data)
              /\ \A name \in DOMAIN analyzer.naming_patterns :
                    analyzer.report[1].naming_patterns[name]
                      = Len(analyzer.naming_patterns[name])

\* a file that matches two patterns, a file that matches only a later
\* pattern and an unclassified file, each in its bucket, and a report
C18_Witness ==
    /\ FreshAnalysisEnded
    /\ analyzer.report # <<>>
    /\ \E i \in DOMAIN analyzer.files_data :
          /\ MatchesPattern("descriptive_with_version", analyzer.files_data[i].filename)
          /\ MatchesPattern("final_versions", analyzer.files_data[i].filename)
    /\ "date_based" \in DOMAIN analyzer.naming_patterns
    /\ "unclassified" \in DOMAIN analyzer.naming_patterns


\* the invocations of _transform_file that reached shutil.copy2
CopiesStarted == {i \in DOMAIN attempts : attempts[i].outcome \in {"SUCCESS", "FAILED"}}

(***************************************************************************)
(* C19.  Every directory into which a file is copied has been created      *)
(* before the copy is attempted: for every file of every project, whatever *)
(* category its extension maps to (drawings, documentation, bom, or the    *)
(* misc category of the unmapped extensions), the target folder exists     *)
(* when the copy starts.                                                   *)
(***************************************************************************)
C19_FolderExistsBeforeCopy ==
    \A i \in CopiesStarted : attempts[i].folder_existed


\* a string of the form R<n>, n a decimal number of value 1 or more
IsRevisionString(s) ==
    /\ Len(s) >= 2
    /\ s[1] = "R"
    /\ \A i \in 2..Len(s) : IsDigit(s[i])
    /\ \E i \in 2..Len(s) : s[i] # "0"

(***************************************************************************)
(* C20.  For every filename the revision string _extract_revision returns  *)
(* has the form R<n> with n a positive integer (n >= 1), for a numeric     *)
(* match, for a lettered match and for the default.                        *)
(***************************************************************************)
C20_RevisionPositive ==
    pure.fn = "_extract_revision" => IsRevisionString(pure.output)


\* the lowercased name contains one of the words
NameHas(filename, words) == \E w \in words : Contains(Lower(filename), w)

\* the type code the claim gives a filename of the given extension
ExpectedTypeCode(filename, extension) ==
    CASE extension = S_dwg ->
            IF NameHas(filename, {W_assembly, W_asm, W_main}) THEN "ASM" ELSE "PRT"
      [] extension = S_pdf ->
            IF NameHas(filename, {W_spec, W_requirement, W_standard}) THEN "SPEC" ELSE "DOC"
      [] extension \in {S_xlsx, S_xls} ->
            IF NameHas(filename, {W_bom, W_bill, W_material}) THEN "BOM" ELSE "DATA"
      [] OTHER -> "MISC"

Beta_Assembly_R1 ==
    <<"B","e","t","a","_","A","s","s","e","m","b","l","y","_","R","1",".","d","w","g">>

(***************************************************************************)
(* C21.  The type code of a file is a function of its extension and its    *)
(* lowercased name: .dwg gives ASM if the name contains assembly, asm or   *)
(* main, else PRT; .pdf gives SPEC if it contains spec, requirement or     *)
(* standard, else DOC; .xlsx and .xls give BOM if it contains bom, bill or *)
(* material, else DATA; any other extension gives MISC.                    *)
(* Beta_Assembly_R1.dwg gets the type code ASM and the revision R1.        *)
(***************************************************************************)
C21_TypeCode ==
    pure.fn = "_determine_type_code" =>
        /\ pure.output.type_code = ExpectedTypeCode(pure.input, Extension(pure.input))
        /\ pure.input = Beta_Assembly_R1 =>
              /\ pure.output.type_code = "ASM"
              /\ pure.output.revision = <<"R", "1">>

\* the type code and the revision of Beta_Assembly_R1.dwg have been determined
C21_Witness ==
    /\ pure.fn = "_determine_type_code"
    /\ pure.input = Beta_Assembly_R1


\* the sum of the file sizes of the entries of the log at the given places
RECURSIVE FileSizeOver(_, _)
FileSizeOver(log, places) ==
    IF places = {} THEN 0
    ELSE LET i == CHOOSE j \in places : TRUE
         IN  log[i].file_size + FileSizeOver(log, places \ {i})

SuccessEntries(log) == {i \in DOMAIN log : log[i].status = "SUCCESS"}

(***************************************************************************)
(* C22.  In a transformation report total_files_processed =                *)
(* successful_transformations + failed_transformations = the number of log *)
(* entries, successful_transformations is the number of SUCCESS entries,   *)
(* and the total size (in hundredths of a megabyte) is that of the sum of  *)
(* the file sizes of the SUCCESS entries only.                             *)
(***************************************************************************)
C22_ReportTotals ==
    report # <<>> =>
        LET summary == report[1].transformation_summary
            log     == report[1].detailed_log
        IN  /\ log = transformation_log
            /\ summary.total_files_processed = Len(log)
            /\ summary.total_files_processed
                 = summary.successful_transformations + summary.failed_transformations
            /\ summary.successful_transformations = Cardinality(SuccessEntries(log))
            /\ summary.total_size_mb
                 = RoundDiv(100 * FileSizeOver(log, SuccessEntries(log)), BytesPerMB)

\* a report over a log with two SUCCESS entries and a FAILED entry
C22_Witness ==
    /\ report # <<>>
    /\ Cardinality(SuccessEntries(report[1].detailed_log)) = 2
    /\ Len(report[1].detailed_log) = 3
    /\ report[1].transformation_summary.total_size_mb > 0


\* the fields the claim gives every log entry
CommonFields == {"status", "timestamp", "source_path", "original_filename", "project_id", "file_size"}

(***************************************************************************)
(* C23.  Every transformation log entry has the status SUCCESS or FAILED   *)
(* and records timestamp, source path, original filename, project id and   *)
(* file size; a SUCCESS entry has a target path and a new filename and no  *)
(* error detail; a FAILED entry has an error detail and neither a target   *)
(* path nor a new filename.                                                *)
(***************************************************************************)
C23_LogEntryFields ==
    \A i \in DOMAIN transformation_log :
        LET entry == transformation_log[i]
        IN  /\ CommonFields \subseteq DOMAIN entry
            /\ entry.status \in {"SUCCESS", "FAILED"}
            /\ entry.status = "SUCCESS" =>
                  /\ {"target_path", "new_filename"} \subseteq DOMAIN entry
                  /\ "error" \notin DOMAIN entry
            /\ entry.status = "FAILED" =>
                  /\ "error" \in DOMAIN entry
                  /\ DOMAIN entry \cap {"target_path", "new_filename"} = {}


\* the places of a string where the pattern of a rule of the path heuristic
\* matches
ProjectWordPlaces(s) == {pos \in 1..Len(s) : ProjectWordAt(s, pos)}

YearPlaces(s) == {pos \in 1..Len(s) : YearAt(s, pos)}

CodePlaces(s) == {pos \in 1..Len(s) : CodeAt(s, pos)}

\* rule (a): the word that follows the first token 'project', title-cased
WordAfterProject(s) ==
    LET p == Search(ProjectWordPlaces(s))
        j == p + 7 + RunLen(s, p + 7, UnderscoreOrSpaceClass)
    IN  Title(SubSeq(s, j, j + RunLen(s, j, AlphaClass) - 1))

\* rule (b): the segment that follows the first segment holding a year,
\* joined to the year, or Project_<year> when no segment follows
SegmentAndYear(relative_path) ==
    LET holders == {k \in DOMAIN relative_path : YearPlaces(relative_path[k]) # {}}
        k == CHOOSE h \in holders : \A h2 \in holders : h <= h2
        p == Search(YearPlaces(relative_path[k]))
        year == SubSeq(relative_path[k], p, p + 3)
    IN  IF k < Len(relative_path)
        THEN relative_path[k + 1] \o <<"_">> \o year
        ELSE N_Project_ \o year

\* the outcome the claim gives a folder path: that of the first applicable
\* rule in the order (a) to (e)
ExpectedProject(relative_path) ==
    LET path_str == PathStr(relative_path)
        visible  == {k \in DOMAIN relative_path :
                        relative_path[k] # <<>> /\ relative_path[k][1] # "."}
    IN  IF ProjectWordPlaces(path_str) # {} THEN WordAfterProject(path_str)
        ELSE IF \E k \in DOMAIN relative_path : YearPlaces(relative_path[k]) # {}
        THEN SegmentAndYear(relative_path)
        ELSE IF CodePlaces(path_str) # {}
        THEN LET p == Search(CodePlaces(path_str))
             IN  SubSeq(path_str, p, p + RunLen(path_str, p, UpperClass) - 1)
        ELSE IF visible # {}
        THEN Title(ReplaceSpaces(relative_path[CHOOSE k \in visible :
                                                  \A k2 \in visible : k <= k2]))
        ELSE N_Unknown_Project

(***************************************************************************)
(* C24.  The path heuristic returns the outcome of the first applicable    *)
(* rule, in this order: (a) the folder path contains the token 'project'   *)
(* (any case) followed by a word: that word, title-cased; (b) the path     *)
(* contains a 4-digit year: '<segment>_<year>' where segment is the path   *)
(* segment following the year, or 'Project_<year>' when no segment         *)
(* follows; (c) 2-4 uppercase letters followed by '-' or '_': that code;   *)
(* (d) the first non-hidden path segment, normalized; (e) otherwise        *)
(* 'Unknown_Project' (files directly in the source root).                  *)
(***************************************************************************)
C24_PathHeuristic ==
    pure.fn = "_identify_project_from_path" =>
        pure.output = ExpectedProject(pure.input)


(***************************************************************************)
(* C25.  In every state an analyzer reaches, after any number of           *)
(* analyze_archive invocations on it over an unchanged tree, no two file   *)
(* records of its catalog have the same path, and the summary.total_files  *)
(* of a report it returned equals the number of regular files under the    *)
(* root.                                                                   *)
(***************************************************************************)
C25_CatalogPathsUnique ==
    /\ \A i, j \in DOMAIN analyzer.files_data :
          analyzer.files_data[i].relative_path = analyzer.files_data[j].relative_path
              => i = j
    /\ analyzer.report # <<>> =>
          analyzer.report[1].summary.total_files = Cardinality(source_tree)


(***************************************************************************)
(* C26.  Each transformation run starts from fresh run state: when         *)
(* transform_archive (or the sequence of its phases) is invoked a second   *)
(* time on the same transformer, the project counter, the mappings and the *)
(* log of the first run are not carried over, the ids of the second run    *)
(* start again at 1, and its report covers the projects and the files of   *)
(* the second run only.                                                    *)
(***************************************************************************)
C26_RunsStartFresh ==
    run >= 2 =>
        /\ last_call.op = "_discover_projects" =>
              /\ project_counter = 1
              /\ project_mappings = EmptyDict
              /\ transformation_log = <<>>
        /\ (FirstGroupPassed /\ projects[1].original_name \in DOMAIN project_mappings) =>
              project_mappings[projects[1].original_name].new_id
                = ProjectId(transformation_rules, 1)
        /\ report # <<>> =>
              /\ DOMAIN report[1].project_mappings \subseteq DiscoveredKeys
              /\ Len(report[1].detailed_log) <= Cardinality(source_tree)


(***************************************************************************)
(* C27.  With the default naming template no two SUCCESS entries of the    *)
(* log of one run have the same target path: a successful copy never       *)
(* overwrites the target of an earlier successful copy of the run,         *)
(* whatever the tree, the type codes of its files and the copies that      *)
(* fail.                                                                   *)
(***************************************************************************)
C27_NoOverwrite ==
    transformation_rules.naming_convention = DefaultRules.naming_convention =>
        \A i, j \in SuccessEntries(transformation_log) :
            transformation_log[i].target_path = transformation_log[j].target_path
                => i = j


\* two successful copies of one run into the same folder whose names differ
\* in the sequence number only
C27_Witness ==
    /\ transformation_rules.naming_convention = DefaultRules.naming_convention
    /\ \E i, j \in SuccessEntries(transformation_log) :
          /\ i < j
          /\ transformation_log[i].project_id = transformation_log[j].project_id
          /\ transformation_log[i].original_filename = transformation_log[j].original_filename
          /\ SubSeq(transformation_log[i].target_path, 1, Len(transformation_log[i].target_path) - 1)
               = SubSeq(transformation_log[j].target_path, 1, Len(transformation_log[j].target_path) - 1)
          /\ transformation_log[i].new_filename # transformation_log[j].new_filename


\* the attempts before the i-th one that copied a file of the same project
\* and type code
EarlierSuccesses(i) ==
    {j \in 1..(i - 1) : /\ AttemptKey(attempts[j]) = AttemptKey(attempts[i])
                        /\ attempts[j].type_code = attempts[i].type_code
                        /\ attempts[j].outcome = "SUCCESS"}

(***************************************************************************)
(* C28.  Within one project and type code the sequence counter advances    *)
(* only on a successful copy: every copy that is tried carries the number  *)
(* of the earlier successful copies of its project and type code plus one, *)
(* so the successes carry 1, 2, ..., k in processing order without gaps    *)
(* and a failed copy does not consume a number.                            *)
(***************************************************************************)
C28_SequenceAdvancesOnSuccess ==
    \A i \in DOMAIN attempts :
        attempts[i].outcome \in {"SUCCESS", "FAILED"} =>
            attempts[i].sequence = Cardinality(EarlierSuccesses(i)) + 1

\* a failed copy followed by a successful one of the same project and type
\* code, which carries the number the failed copy did not consume
C28_Witness ==
    \E i, j \in DOMAIN attempts :
        /\ i < j
        /\ AttemptKey(attempts[i]) = AttemptKey(attempts[j])
        /\ attempts[i].type_code = attempts[j].type_code
        /\ attempts[i].outcome = "FAILED" /\ attempts[i].sequence = 1
        /\ attempts[j].outcome = "SUCCESS" /\ attempts[j].sequence = 1


\* the places <<g, k>> of the groups at which the file of the given source
\* path is listed
PlacesOf(path) ==
    {p \in UNION {{<<g, k>> : k \in DOMAIN projects[g].files} : g \in DOMAIN projects} :
        projects[p[1]].files[p[2]].source_path = path}

(***************************************************************************)
(* C29.  Discovery partitions the source files: after _discover_projects   *)
(* every file of the source tree is listed in exactly one group, the group *)
(* whose key is the project that the path heuristic gives for the folder   *)
(* of the file; the groups list files of the source tree only, have        *)
(* different keys, each has at least one file, and each carries            *)
(* original_name, files, source_folders and year.                          *)
(***************************************************************************)
C29_DiscoveryPartitions ==
    discovered =>
        /\ \A f \in source_tree :
              /\ Cardinality(PlacesOf(Append(f.folder, f.filename))) = 1
              /\ \A p \in PlacesOf(Append(f.folder, f.filename)) :
                    projects[p[1]].original_name = _identify_project_from_path(f.folder)
        /\ \A g \in DOMAIN projects :
              /\ DOMAIN projects[g] = {"original_name", "files", "source_folders", "year"}
              /\ Len(projects[g].files) >= 1
              /\ \A k \in DOMAIN projects[g].files :
                    projects[g].files[k].source_path \in SourcePaths(source_tree)
              /\ \A h \in DOMAIN projects :
                    projects[h].original_name = projects[g].original_name => h = g

\* a discovery that found two groups, one of them with files of two folders
C29_Witness ==
    /\ discovered
    /\ Len(projects) = 2
    /\ \E g \in DOMAIN projects :
          /\ Len(projects[g].files) = 2
          /\ Cardinality(projects[g].source_folders) = 2


(***************************************************************************)
(* C30.  _discover_projects only reads: a call of it leaves the            *)
(* transformation log, the project counter and the project mappings as     *)
(* they were, creates no directory and no file under the target path and   *)
(* changes nothing under the source path.                                  *)
(***************************************************************************)
C30_DiscoveryOnlyReads ==
    [][ last_call'.op = "_discover_projects" =>
            /\ transformation_log' = transformation_log
            /\ project_counter' = project_counter
            /\ project_mappings' = project_mappings
            /\ target_dirs' = target_dirs
            /\ target_files' = target_files
            /\ source_tree' = source_tree ]_vars

\* a discovery has returned groups and the target path does not exist
C30_Witness ==
    /\ last_call.op = "_discover_projects"
    /\ Len(projects) >= 2
    /\ target_dirs = {}
    /\ target_files = {}
    /\ transformation_log = <<>>

====
